---- MODULE Spec2Model ----
(***************************************************************************)
(* Model of the EC2 component library: the argument validators, the        *)
(* catalogs, the volume helpers and the component constructors.            *)
(*                                                                         *)
(* An optional JavaScript property is a sequence of length 0 (undefined,   *)
(* the property is not there) or 1 (the value).  A thrown Error is a       *)
(* record carrying the message text the code builds.                       *)
(***************************************************************************)
EXTENDS Integers, Sequences, FiniteSets, TLC

VARIABLES component, args, pc, error, warned, rootBlockDevice, volumes, attachments,
          resolvedConfig, tags, instance, alarms, dashboard, backup, firstRun

vars == <<component, args, pc, error, warned, rootBlockDevice, volumes, attachments,
          resolvedConfig, tags, instance, alarms, dashboard, backup, firstRun>>

-----------------------------------------------------------------------------
(* Bounds of the explored inputs.                                          *)

MaxHexLen == 18

MaxSgs == 2

MaxVolumes == 2

\* The length of the longest list of additional volumes explored.
MaxAttached == 26

-----------------------------------------------------------------------------
(* Optional values and JavaScript truthiness.                              *)

None == <<>>

Some(v) == <<v>>

\* !s is false for a string exactly when it is present and not "".
TruthyStr(o) == o # None /\ o[1] # ""

\* !n is false for a number exactly when it is present and not 0.
TruthyNum(o) == o # None /\ o[1] # 0

RECURSIVE Join(_, _)
Join(s, sep) ==
  IF Len(s) = 0 THEN ""
  ELSE IF Len(s) = 1 THEN s[1]
  ELSE s[1] \o sep \o Join(Tail(s), sep)

Includes(s, v) == \E i \in 1..Len(s) : s[i] = v

-----------------------------------------------------------------------------
(* constants.ts: Object.values() of each table, in declaration order.      *)

OPERATING_SYSTEMS ==
  << "amazon-linux-2023", "amazon-linux-2", "ubuntu-22-04", "ubuntu-20-04",
     "rhel-9", "rhel-8", "centos-7", "windows-server-2022",
     "windows-server-2019" >>

WORKLOAD_TYPES ==
  << "development", "web-server", "application", "database",
     "high-performance", "testing", "production" >>

ENVIRONMENTS ==
  << "development", "staging", "production", "disaster-recovery", "testing" >>

ACCESS_TYPES ==
  << "private-only", "bastion-access", "public-access", "load-balancer" >>

BACKUP_STRATEGIES == << "none", "daily", "weekly", "critical" >>

MONITORING_LEVELS == << "basic", "detailed", "enhanced", "enterprise" >>

VOLUME_TYPES == << "standard", "gp2", "gp3", "io1", "io2" >>

-----------------------------------------------------------------------------
(* Thrown errors.                                                          *)

NoError == [kind |-> "none", field |-> "", index |-> None, message |-> ""]

Err(k, f, i, m) == [kind |-> k, field |-> f, index |-> i, message |-> m]

-----------------------------------------------------------------------------
(* Identifier strings.  An identifier is a prefix token followed by a body *)
(* of len characters; cls says what the body is made of: "lower" (only     *)
(* a-f and 0-9), "upper" (hexadecimal with at least one of A-F) or         *)
(* "nonhex" (some character that is no hexadecimal digit).                 *)

Id(p, n, c) == [prefix |-> p, len |-> n, cls |-> c]

EmptyId == Id("", 0, "lower")

TruthyId(o) == o # None /\ o[1] # EmptyId

\* String.prototype.toLowerCase on the prefix tokens in use.
ToLowerCase(p) ==
  CASE p = "SUBNET-" -> "subnet-"
    [] p = "SG-" -> "sg-"
    [] OTHER -> p

RECURSIVE Repeat(_, _)
Repeat(ch, n) == IF n <= 0 THEN "" ELSE ch \o Repeat(ch, n - 1)

\* The text of an identifier, as interpolated into a message.
IdText(id) ==
  id.prefix \o
    (IF id.len = 0 THEN ""
     ELSE (CASE id.cls = "lower" -> "a"
             [] id.cls = "upper" -> "A"
             [] OTHER -> "g") \o Repeat("0", id.len - 1))

\* /^<token>[a-f0-9]{8,17}$/i .test(id)
RegexTest(token, id) ==
  /\ ToLowerCase(id.prefix) = token
  /\ id.cls \in {"lower", "upper"}
  /\ id.len >= 8
  /\ id.len <= 17

-----------------------------------------------------------------------------
(* utils/validation.ts                                                     *)

EnumError(field, label, value, validValues) ==
  IF ~Includes(validValues, value)
  THEN Err("InvalidEnum", field, None,
           "Invalid " \o label \o ": \"" \o value \o "\". Valid values: "
             \o Join(validValues, ", "))
  ELSE NoError

validateOperatingSystem(os) ==
  EnumError("operatingSystem", "operatingSystem", os, OPERATING_SYSTEMS)

\* Mutant: the allowed workloads listed in alphabetical order.
validateWorkloadType_Sorted(workload) ==
  EnumError("workload", "workload", workload,
            << "application", "database", "development", "high-performance",
               "production", "testing", "web-server" >>)

validateWorkloadType(workload) ==
  EnumError("workload", "workload", workload, WORKLOAD_TYPES)

validateEnvironment(env) ==
  EnumError("environment", "environment", env, ENVIRONMENTS)

validateAccessType(accessType) ==
  EnumError("accessType", "accessType", accessType, ACCESS_TYPES)

\* Mutant: the strategy looked up in the table of monitoring levels.
validateBackupStrategy_WrongTable(strategy) ==
  EnumError("backupStrategy", "backupStrategy", strategy, MONITORING_LEVELS)

validateBackupStrategy(strategy) ==
  EnumError("backupStrategy", "backupStrategy", strategy, BACKUP_STRATEGIES)

validateMonitoringLevel(level) ==
  EnumError("monitoringLevel", "monitoringLevel", level, MONITORING_LEVELS)

\* Mutant: "standard" missing from the allowed volume types.
validateVolumeType_NoStandard(type) ==
  EnumError("type", "volume type", type, << "gp2", "gp3", "io1", "io2" >>)

validateVolumeType(type) ==
  EnumError("type", "volume type", type, VOLUME_TYPES)

validateSubnetId(subnetId) ==
  IF ~RegexTest("subnet-", subnetId)
  THEN Err("InvalidFormat", "subnetId", None,
           "Invalid subnet ID format: " \o IdText(subnetId)
             \o ". Expected format: subnet-xxxxxxxx or subnet-xxxxxxxxxxxxxxxxx")
  ELSE NoError

validateSecurityGroupId(sgId, index) ==
  IF ~RegexTest("sg-", sgId)
  THEN Err("InvalidFormat", "securityGroupIds", Some(index),
           "Invalid security group ID format at index " \o ToString(index)
             \o ": " \o IdText(sgId)
             \o ". Expected format: sg-xxxxxxxx or sg-xxxxxxxxxxxxxxxxx")
  ELSE NoError

\* Mutant: the upper limit tested with >=, so that 16384 is refused.
SizeInvalid_OffByOne(size) ==
  ~TruthyNum(size) \/ size[1] < 1 \/ size[1] >= 16384

\* !size || size < 1 || size > 16384
SizeInvalid(size) == ~TruthyNum(size) \/ size[1] < 1 \/ size[1] > 16384

\* iops && (iops < 100 || iops > 64000)
IopsInvalid(iops) == TruthyNum(iops) /\ (iops[1] < 100 \/ iops[1] > 64000)

\* throughput && (throughput < 125 || throughput > 1000)
ThroughputInvalid(throughput) ==
  TruthyNum(throughput) /\ (throughput[1] < 125 \/ throughput[1] > 1000)

validateAdditionalVolume(volume, index) ==
  IF ~TruthyStr(volume.name)
  THEN Err("MissingField", "name", Some(index),
           "Additional volume name is required at index " \o ToString(index))
  ELSE IF SizeInvalid(volume.size)
  THEN Err("OutOfRange", "size", Some(index),
           "Additional volume size must be between 1 and 16384 GB at index "
             \o ToString(index))
  ELSE IF TruthyStr(volume.type) /\ validateVolumeType(volume.type[1]) # NoError
  THEN validateVolumeType(volume.type[1])
  ELSE IF IopsInvalid(volume.iops)
  THEN Err("OutOfRange", "iops", Some(index),
           "Additional volume IOPS must be between 100 and 64000 at index "
             \o ToString(index))
  ELSE IF ThroughputInvalid(volume.throughput)
  THEN Err("OutOfRange", "throughput", Some(index),
           "Additional volume throughput must be between 125 and 1000 MiB/s at index "
             \o ToString(index))
  ELSE NoError

\* array.forEach((x, index) => check(x, index)): the first throw ends the loop.
RECURSIVE FirstSgError(_, _)
FirstSgError(ids, i) ==
  IF i > Len(ids) THEN NoError
  ELSE IF validateSecurityGroupId(ids[i], i - 1) # NoError
  THEN validateSecurityGroupId(ids[i], i - 1)
  ELSE FirstSgError(ids, i + 1)

RECURSIVE FirstVolumeError(_, _)
FirstVolumeError(vols, i) ==
  IF i > Len(vols) THEN NoError
  ELSE IF validateAdditionalVolume(vols[i], i - 1) # NoError
  THEN validateAdditionalVolume(vols[i], i - 1)
  ELSE FirstVolumeError(vols, i + 1)

\* "linux" is a substring of exactly these of the operating-system strings in use.
IncludesLinux(os) == os \in {"amazon-linux-2023", "amazon-linux-2"}

\* validateArgs, lines 157-206: the checks that precede the key-pair warning.
\* Mutant: the presence of project checked before that of subnetId.
validateArgsChecks_ProjectFirst(config) ==
  IF ~TruthyStr(config.name)
  THEN Err("MissingField", "name", None, "name is required")
  ELSE IF ~TruthyStr(config.operatingSystem)
  THEN Err("MissingField", "operatingSystem", None, "operatingSystem is required")
  ELSE IF validateOperatingSystem(config.operatingSystem[1]) # NoError
  THEN validateOperatingSystem(config.operatingSystem[1])
  ELSE IF ~TruthyStr(config.workload)
  THEN Err("MissingField", "workload", None, "workload is required")
  ELSE IF validateWorkloadType(config.workload[1]) # NoError
  THEN validateWorkloadType(config.workload[1])
  ELSE IF ~TruthyStr(config.project)
  THEN Err("MissingField", "project", None, "project is required")
  ELSE IF ~TruthyId(config.subnetId)
  THEN Err("MissingField", "subnetId", None, "subnetId is required")
  ELSE IF config.securityGroupIds = None \/ Len(config.securityGroupIds[1]) = 0
  THEN Err("MissingField", "securityGroupIds", None,
           "securityGroupIds must be provided and non-empty")
  ELSE IF validateSubnetId(config.subnetId[1]) # NoError
  THEN validateSubnetId(config.subnetId[1])
  ELSE IF FirstSgError(config.securityGroupIds[1], 1) # NoError
  THEN FirstSgError(config.securityGroupIds[1], 1)
  ELSE IF TruthyStr(config.environment)
          /\ validateEnvironment(config.environment[1]) # NoError
  THEN validateEnvironment(config.environment[1])
  ELSE IF TruthyStr(config.accessType)
          /\ validateAccessType(config.accessType[1]) # NoError
  THEN validateAccessType(config.accessType[1])
  ELSE IF TruthyStr(config.backupStrategy)
          /\ validateBackupStrategy(config.backupStrategy[1]) # NoError
  THEN validateBackupStrategy(config.backupStrategy[1])
  ELSE IF TruthyStr(config.monitoringLevel)
          /\ validateMonitoringLevel(config.monitoringLevel[1]) # NoError
  THEN validateMonitoringLevel(config.monitoringLevel[1])
  ELSE NoError

validateArgsChecks(config) ==
  IF ~TruthyStr(config.name)
  THEN Err("MissingField", "name", None, "name is required")
  ELSE IF ~TruthyStr(config.operatingSystem)
  THEN Err("MissingField", "operatingSystem", None, "operatingSystem is required")
  ELSE IF validateOperatingSystem(config.operatingSystem[1]) # NoError
  THEN validateOperatingSystem(config.operatingSystem[1])
  ELSE IF ~TruthyStr(config.workload)
  THEN Err("MissingField", "workload", None, "workload is required")
  ELSE IF validateWorkloadType(config.workload[1]) # NoError
  THEN validateWorkloadType(config.workload[1])
  ELSE IF ~TruthyId(config.subnetId)
  THEN Err("MissingField", "subnetId", None, "subnetId is required")
  ELSE IF config.securityGroupIds = None \/ Len(config.securityGroupIds[1]) = 0
  THEN Err("MissingField", "securityGroupIds", None,
           "securityGroupIds must be provided and non-empty")
  ELSE IF ~TruthyStr(config.project)
  THEN Err("MissingField", "project", None, "project is required")
  ELSE IF validateSubnetId(config.subnetId[1]) # NoError
  THEN validateSubnetId(config.subnetId[1])
  ELSE IF FirstSgError(config.securityGroupIds[1], 1) # NoError
  THEN FirstSgError(config.securityGroupIds[1], 1)
  ELSE IF TruthyStr(config.environment)
          /\ validateEnvironment(config.environment[1]) # NoError
  THEN validateEnvironment(config.environment[1])
  ELSE IF TruthyStr(config.accessType)
          /\ validateAccessType(config.accessType[1]) # NoError
  THEN validateAccessType(config.accessType[1])
  ELSE IF TruthyStr(config.backupStrategy)
          /\ validateBackupStrategy(config.backupStrategy[1]) # NoError
  THEN validateBackupStrategy(config.backupStrategy[1])
  ELSE IF TruthyStr(config.monitoringLevel)
          /\ validateMonitoringLevel(config.monitoringLevel[1]) # NoError
  THEN validateMonitoringLevel(config.monitoringLevel[1])
  ELSE NoError

\* validateArgs: the thrown error (NoError when it returns) and whether
\* console.warn was called before it returned or threw.
validateArgs(config) ==
  IF validateArgsChecks(config) # NoError
  THEN [err |-> validateArgsChecks(config), warned |-> FALSE]
  ELSE [err |-> IF config.additionalVolumes # None
                THEN FirstVolumeError(config.additionalVolumes[1], 1)
                ELSE NoError,
        warned |-> IncludesLinux(config.operatingSystem[1])
                     /\ ~TruthyStr(config.keyPairName)]

-----------------------------------------------------------------------------
(* data/operating-systems.ts and data/workloads.ts                         *)

OS_CONFIGS ==
  [os \in {"amazon-linux-2023", "amazon-linux-2", "ubuntu-22-04", "ubuntu-20-04",
           "rhel-9", "rhel-8", "centos-7", "windows-server-2022",
           "windows-server-2019"} |->
     CASE os \in {"amazon-linux-2023", "amazon-linux-2", "centos-7"} ->
            [defaultRootVolumeSize |-> 8, requiresKeyPair |-> TRUE]
       [] os \in {"ubuntu-22-04", "ubuntu-20-04", "rhel-9", "rhel-8"} ->
            [defaultRootVolumeSize |-> 10, requiresKeyPair |-> TRUE]
       [] OTHER ->
            [defaultRootVolumeSize |-> 30, requiresKeyPair |-> FALSE]]

WORKLOAD_CONFIGS ==
  [w \in {"development", "web-server", "application", "database",
          "high-performance", "testing", "production"} |->
     CASE w = "development" ->
            [instanceType |-> "t3.micro", monitoringLevel |-> "basic",
             backupStrategy |-> "none", terminationProtection |-> FALSE,
             rootVolumeSize |-> 8]
       [] w = "web-server" ->
            [instanceType |-> "t3.medium", monitoringLevel |-> "detailed",
             backupStrategy |-> "daily", terminationProtection |-> TRUE,
             rootVolumeSize |-> 20]
       [] w = "application" ->
            [instanceType |-> "t3.large", monitoringLevel |-> "detailed",
             backupStrategy |-> "weekly", terminationProtection |-> TRUE,
             rootVolumeSize |-> 30]
       [] w = "database" ->
            [instanceType |-> "r6i.large", monitoringLevel |-> "enhanced",
             backupStrategy |-> "daily", terminationProtection |-> TRUE,
             rootVolumeSize |-> 50]
       [] w = "high-performance" ->
            [instanceType |-> "c6i.xlarge", monitoringLevel |-> "enterprise",
             backupStrategy |-> "critical", terminationProtection |-> TRUE,
             rootVolumeSize |-> 100]
       [] w = "testing" ->
            [instanceType |-> "t3.micro", monitoringLevel |-> "basic",
             backupStrategy |-> "none", terminationProtection |-> FALSE,
             rootVolumeSize |-> 8]
       [] OTHER ->
            [instanceType |-> "m6i.large", monitoringLevel |-> "enterprise",
             backupStrategy |-> "daily", terminationProtection |-> TRUE,
             rootVolumeSize |-> 40]]

WORKLOAD_ENVIRONMENTS ==
  [w \in {"development", "testing", "web-server", "application", "database",
          "high-performance", "production"} |->
     CASE w = "development" -> "development"
       [] w = "testing" -> "testing"
       [] OTHER -> "production"]

-----------------------------------------------------------------------------
(* utils/volumes.ts                                                        *)

\* Mutant: the operands of || taken in the other order.
OrNum_Swapped(a, b) == IF TruthyNum(b) THEN b ELSE a

\* a || b || c on numbers: the first that is present and not 0, else the last.
OrNum(a, b) == IF TruthyNum(a) THEN a ELSE b

\* Mutant: the encrypted property left out of the returned device.
createRootBlockDevice_NoEncryption(config, osConfig, workloadConfig) ==
  [volumeSize |-> OrNum(config.rootVolumeSize,
                        OrNum(Some(workloadConfig.rootVolumeSize),
                              Some(osConfig.defaultRootVolumeSize))),
   volumeType |-> Some("gp3"),
   deleteOnTermination |-> Some(TRUE),
   encrypted |-> None]

createRootBlockDevice(config, osConfig, workloadConfig) ==
  [volumeSize |-> OrNum(config.rootVolumeSize,
                        OrNum(Some(workloadConfig.rootVolumeSize),
                              Some(osConfig.defaultRootVolumeSize))),
   volumeType |-> Some("gp3"),
   deleteOnTermination |-> Some(TRUE),
   encrypted |-> Some(TRUE)]

\* Mutant: volumeArgs.encrypted === true, so that an absent flag leaves the
\* volume unencrypted.
NotFalse_StrictTrue(o) == o = Some(TRUE)

\* volumeArgs.encrypted !== false
NotFalse(o) == o # Some(FALSE)

\* Mutant: the default taken whatever the caller supplied.
OrStr_DefaultWins(o, d) == d

\* type || "gp3"
OrStr(o, d) == IF TruthyStr(o) THEN o[1] ELSE d

\* The aws.ebs.Volume created for the volume at (zero-based) index.
createVolume(volumeArgs, index) ==
  [name |-> volumeArgs.name,
   size |-> volumeArgs.size,
   type |-> OrStr(volumeArgs.type, "gp3"),
   encrypted |-> NotFalse(volumeArgs.encrypted),
   iops |-> volumeArgs.iops,
   throughput |-> volumeArgs.throughput]

\* The characters of the codes 97 to 125.
Chars ==
  << "a", "b", "c", "d", "e", "f", "g", "h", "i", "j", "k", "l", "m", "n", "o",
     "p", "q", "r", "s", "t", "u", "v", "w", "x", "y", "z", "{", "|", "}" >>

\* String.fromCharCode on the codes 97 to 125.
FromCharCode(code) == Chars[code - 96]

\* The aws.ec2.VolumeAttachment: String.fromCharCode(98 + index) as its code.
createAttachment(volumeArgs, index) ==
  [name |-> volumeArgs.name, deviceCharCode |-> 98 + index,
   deviceName |-> "/dev/sd" \o FromCharCode(98 + index)]

createAdditionalVolumes(config) ==
  IF config.additionalVolumes # None
  THEN [volumes |-> [i \in 1..Len(config.additionalVolumes[1]) |->
                       createVolume(config.additionalVolumes[1][i], i - 1)],
        attachments |-> [i \in 1..Len(config.additionalVolumes[1]) |->
                       createAttachment(config.additionalVolumes[1][i], i - 1)]]
  ELSE [volumes |-> <<>>, attachments |-> <<>>]


-----------------------------------------------------------------------------
(* utils/backup.ts                                                         *)

\* The maintenance windows createBackupResources creates.
createBackupResources(backupStrategy) ==
  IF backupStrategy = "none"
  THEN << >>
  ELSE << [schedule |-> IF backupStrategy = "daily"
                        THEN "cron(0 5 ? * * *)"
                        ELSE "cron(0 5 ? * SUN *)",
           duration |-> 2, cutoff |-> 1] >>

-----------------------------------------------------------------------------
(* ec2.ts: class Ec2                                                       *)

\* String.prototype.trim on the strings in use.
Trim(str) == IF str \in {" ", "  "} THEN "" ELSE str

\* !s || s.trim() === ""
Blank(o) == ~TruthyStr(o) \/ Trim(o[1]) = ""

\* Mutant: the project check left out.
Ec2_validateArgs_NoProject(a) ==
  IF Blank(a.name)
  THEN Err("MissingField", "name", None, "Instance name is required")
  ELSE IF Blank(a.operatingSystem)
  THEN Err("MissingField", "operatingSystem", None, "Operating system is required")
  ELSE IF Blank(a.workload)
  THEN Err("MissingField", "workload", None, "Workload type is required")
  ELSE IF ~TruthyId(a.subnetId)
  THEN Err("MissingField", "subnetId", None, "Subnet ID is required")
  ELSE IF a.securityGroupIds = None \/ Len(a.securityGroupIds[1]) = 0
  THEN Err("MissingField", "securityGroupIds", None,
           "At least one security group ID is required")
  ELSE NoError

Ec2_validateArgs(a) ==
  IF Blank(a.name)
  THEN Err("MissingField", "name", None, "Instance name is required")
  ELSE IF Blank(a.operatingSystem)
  THEN Err("MissingField", "operatingSystem", None, "Operating system is required")
  ELSE IF Blank(a.workload)
  THEN Err("MissingField", "workload", None, "Workload type is required")
  ELSE IF Blank(a.project)
  THEN Err("MissingField", "project", None, "Project name is required")
  ELSE IF ~TruthyId(a.subnetId)
  THEN Err("MissingField", "subnetId", None, "Subnet ID is required")
  ELSE IF a.securityGroupIds = None \/ Len(a.securityGroupIds[1]) = 0
  THEN Err("MissingField", "securityGroupIds", None,
           "At least one security group ID is required")
  ELSE NoError

\* Mutant: the default environment read from state that the first
\* construction changes.
Ec2_getDefaultEnvironment_Stateful(workload) ==
  IF pc = "done"
  THEN "testing"
  ELSE IF workload \in {"production", "database", "high-performance"}
  THEN "production"
  ELSE "development"

Ec2_getDefaultEnvironment(workload) ==
  IF workload \in {"production", "database", "high-performance"}
  THEN "production"
  ELSE "development"

\* "windows" is a substring of exactly these of the operating-system strings in use.
IncludesWindows(os) == os \in {"windows-server-2022", "windows-server-2019"}

Ec2_getDefaultRootVolumeSize(os, workload) ==
  (IF IncludesWindows(os) THEN 50 ELSE 20)
    * (IF workload = "database" \/ workload = "high-performance" THEN 2 ELSE 1)

Ec2_getDefaultRootVolumeType(workload) ==
  IF workload = "high-performance" THEN "io2" ELSE "gp3"

\* workloadMap[workload] || "t3.micro"
Ec2_getDefaultInstanceType(workload) ==
  CASE workload = "development" -> "t3.micro"
    [] workload = "testing" -> "t3.small"
    [] workload = "web-server" -> "t3.small"
    [] workload = "application" -> "t3.medium"
    [] workload = "database" -> "m5.large"
    [] workload = "high-performance" -> "c5.xlarge"
    [] workload = "production" -> "m5.large"
    [] OTHER -> "t3.micro"

Ec2_getDefaultMonitoring(workload) ==
  workload \in {"production", "database", "high-performance"}

Ec2_getDefaultTerminationProtection(workload) ==
  workload \in {"production", "database", "high-performance"}

\* x !== undefined ? x : d
IfDefined(o, d) == IF o # None THEN o[1] ELSE d

\* The empty object {}.
EmptyTags == <<>>

Ec2_setDefaults(a) ==
  [a EXCEPT
     !.environment =
        Some(OrStr(a.environment, Ec2_getDefaultEnvironment(a.workload[1]))),
     !.team = Some(OrStr(a.team, "infrastructure")),
     !.application = Some(OrStr(a.application, "general")),
     !.costCenter = Some(OrStr(a.costCenter, "IT-001")),
     !.instanceType =
        Some(OrStr(a.instanceType, Ec2_getDefaultInstanceType(a.workload[1]))),
     !.rootVolumeSize =
        OrNum(a.rootVolumeSize,
              Some(Ec2_getDefaultRootVolumeSize(a.operatingSystem[1],
                                                a.workload[1]))),
     !.rootVolumeType =
        Some(OrStr(a.rootVolumeType, Ec2_getDefaultRootVolumeType(a.workload[1]))),
     !.enableDetailedMonitoring =
        Some(IfDefined(a.enableDetailedMonitoring,
                       Ec2_getDefaultMonitoring(a.workload[1]))),
     !.enableTerminationProtection =
        Some(IfDefined(a.enableTerminationProtection,
                       Ec2_getDefaultTerminationProtection(a.workload[1]))),
     !.tags = Some(IF a.tags # None THEN a.tags[1] ELSE EmptyTags)]

Ec2_getOsConfig(os) ==
  IF os \notin {"amazon-linux-2023", "amazon-linux-2", "ubuntu-22-04",
                "ubuntu-20-04", "rhel-9", "rhel-8", "centos-7",
                "windows-server-2022", "windows-server-2019"}
  THEN Err("Unsupported", "operatingSystem", None,
           "Unsupported operating system: " \o os)
  ELSE NoError

Ec2_getWorkloadConfig(workload) ==
  IF workload \notin {"development", "testing", "web-server", "application",
                      "database", "high-performance", "production"}
  THEN Err("Unsupported", "workload", None,
           "Unsupported workload type: " \o workload)
  ELSE NoError

\* The instanceType of the entry getWorkloadConfig returns.
Ec2_workloadConfigs(workload) ==
  CASE workload = "development" -> [instanceType |-> "t3.micro"]
    [] workload = "testing" -> [instanceType |-> "t3.small"]
    [] workload = "web-server" -> [instanceType |-> "t3.small"]
    [] workload = "application" -> [instanceType |-> "t3.medium"]
    [] workload = "database" -> [instanceType |-> "m5.large"]
    [] workload = "high-performance" -> [instanceType |-> "c5.xlarge"]
    [] workload = "production" -> [instanceType |-> "m5.large"]

\* Mutant: the spread in the other order, the base winning on a shared key.
SpreadTags_BaseWins(base, over) ==
  [k \in DOMAIN base \cup DOMAIN over |->
     IF k \in DOMAIN base THEN base[k] ELSE over[k]]

\* { ...base, ...over } on tag maps: the keys of both, the value of over
\* where it has the key.
SpreadTags(base, over) ==
  [k \in DOMAIN base \cup DOMAIN over |->
     IF k \in DOMAIN over THEN over[k] ELSE base[k]]

\* Mutant: the Workload tag left out.
Ec2_createEnterpriseTags_NoWorkload(cfg) ==
  SpreadTags([Name |-> cfg.name[1] \o "-instance",
              Environment |-> cfg.environment[1],
              Project |-> cfg.project[1],
              Team |-> cfg.team[1],
              Application |-> cfg.application[1],
              CostCenter |-> cfg.costCenter[1],
              OperatingSystem |-> cfg.operatingSystem[1],
              ManagedBy |-> "pulumi"],
             cfg.tags[1])

Ec2_createEnterpriseTags(cfg) ==
  SpreadTags([Name |-> cfg.name[1] \o "-instance",
              Environment |-> cfg.environment[1],
              Project |-> cfg.project[1],
              Team |-> cfg.team[1],
              Application |-> cfg.application[1],
              CostCenter |-> cfg.costCenter[1],
              Workload |-> cfg.workload[1],
              OperatingSystem |-> cfg.operatingSystem[1],
              ManagedBy |-> "pulumi"],
             cfg.tags[1])

Ec2_createRootBlockDevice(cfg) ==
  [volumeSize |-> cfg.rootVolumeSize,
   volumeType |-> cfg.rootVolumeType,
   deleteOnTermination |-> Some(TRUE),
   encrypted |-> Some(TRUE)]

\* The arguments of new aws.ec2.Instance in the Ec2 constructor; name is the
\* constructor's resource name.
Ec2_instanceArgs(name, cfg, workloadConfig) ==
  [instanceType |-> OrStr(cfg.instanceType, workloadConfig.instanceType),
   monitoring |-> NotFalse(cfg.enableDetailedMonitoring),
   disableApiTermination |-> NotFalse(cfg.enableTerminationProtection),
   associatePublicIpAddress |-> FALSE,
   sourceDestCheck |-> TRUE,
   tags |-> SpreadTags([Name |-> name \o "-instance",
                        Environment |-> cfg.environment[1],
                        Project |-> cfg.project[1],
                        Team |-> cfg.team[1],
                        Application |-> cfg.application[1],
                        CostCenter |-> cfg.costCenter[1],
                        Workload |-> cfg.workload[1],
                        OperatingSystem |-> cfg.operatingSystem[1],
                        ManagedBy |-> "pulumi"],
                       cfg.tags[1])]

-----------------------------------------------------------------------------
(* src/index.ts: class Ec2Instance                                         *)

\* An own property of an object literal: not there (<<>>), or there with a
\* value that may itself be undefined (<<None>>).
Absent == <<>>

\* { ...defaults, ...overrides }, one property: an own property of the
\* overrides replaces the default, even when its value is undefined.
Spread(default, own) == IF own = Absent THEN default ELSE own[1]

\* The baseTags of the Ec2Instance constructor.
Inst_baseTags(a) ==
  SpreadTags([Name |-> a.name[1],
              Environment |-> a.environment[1],
              Project |-> a.project[1],
              ManagedBy |-> "pulumi"],
             IF a.tags # None THEN a.tags[1] ELSE EmptyTags)

\* Mutant: x !== false, so that an absent flag counts as true.
OrFalse_DefaultTrue(o) == o # Some(FALSE)

\* x || false on a boolean option.
OrFalse(o) == o = Some(TRUE)

\* The instanceArgs of the Ec2Instance constructor.
Inst_instanceArgs(a) ==
  [instanceType |-> a.instanceType[1],
   monitoring |-> NotFalse(a.enableDetailedMonitoring),
   sourceDestCheck |-> NotFalse(a.enableSourceDestCheck),
   disableApiTermination |-> OrFalse(a.enableTerminationProtection),
   associatePublicIpAddress |-> OrFalse(a.associatePublicIpAddress),
   tags |-> Inst_baseTags(a)]

Inst_createRootBlockDevice(rootBlockDeviceArgs) ==
  IF rootBlockDeviceArgs = None
  THEN [volumeSize |-> Some(8), volumeType |-> Some("gp3"),
        deleteOnTermination |-> Some(TRUE), encrypted |-> Some(TRUE)]
  ELSE [volumeSize |-> Spread(Some(8), rootBlockDeviceArgs[1].volumeSize),
        volumeType |-> Spread(Some("gp3"), rootBlockDeviceArgs[1].volumeType),
        deleteOnTermination |->
          Spread(Some(TRUE), rootBlockDeviceArgs[1].deleteOnTermination),
        encrypted |-> Spread(Some(TRUE), rootBlockDeviceArgs[1].encrypted)]

\* /^[a-z0-9]+\.(nano|micro|...|metal)$/i on the instance-type strings in use.
InstanceTypeRegexTest(t) == t \in {"t3.micro", "m5.large", "T3.MICRO"}

Inst_validateInstanceType(instanceType) ==
  IF ~InstanceTypeRegexTest(instanceType)
  THEN Err("InvalidFormat", "instanceType", None,
           "Invalid instance type: " \o instanceType)
  ELSE NoError

Inst_validateAmiId(amiId) ==
  IF ~RegexTest("ami-", amiId)
  THEN Err("InvalidFormat", "amiId", None,
           "Invalid AMI ID format: " \o IdText(amiId)
             \o ". Expected format: ami-xxxxxxxx or ami-xxxxxxxxxxxxxxxxx")
  ELSE NoError

Inst_validateEbsVolume(volume, index) ==
  IF ~TruthyStr(volume.name)
  THEN Err("MissingField", "name", Some(index),
           "EBS volume name is required at index " \o ToString(index))
  ELSE IF SizeInvalid(volume.size)
  THEN Err("OutOfRange", "size", Some(index),
           "EBS volume size must be between 1 and 16384 GB at index "
             \o ToString(index))
  ELSE IF ~TruthyStr(volume.availabilityZone)
  THEN Err("MissingField", "availabilityZone", Some(index),
           "EBS volume availability zone is required at index "
             \o ToString(index))
  ELSE IF TruthyStr(volume.type) /\ ~Includes(VOLUME_TYPES, volume.type[1])
  THEN Err("InvalidEnum", "type", Some(index),
           "Invalid EBS volume type at index " \o ToString(index) \o ": "
             \o volume.type[1] \o ". Valid types: " \o Join(VOLUME_TYPES, ", "))
  ELSE IF IopsInvalid(volume.iops)
  THEN Err("OutOfRange", "iops", Some(index),
           "EBS volume IOPS must be between 100 and 64000 at index "
             \o ToString(index))
  ELSE IF ThroughputInvalid(volume.throughput)
  THEN Err("OutOfRange", "throughput", Some(index),
           "EBS volume throughput must be between 125 and 1000 MiB/s at index "
             \o ToString(index))
  ELSE NoError

RECURSIVE Inst_FirstVolumeError(_, _)
Inst_FirstVolumeError(vols, i) ==
  IF i > Len(vols) THEN NoError
  ELSE IF Inst_validateEbsVolume(vols[i], i - 1) # NoError
  THEN Inst_validateEbsVolume(vols[i], i - 1)
  ELSE Inst_FirstVolumeError(vols, i + 1)

\* Mutant: the EBS volumes not validated before the instance is created.
Inst_validateArgs_NoVolumes(a) ==
  IF ~TruthyStr(a.name)
  THEN Err("MissingField", "name", None, "name is required")
  ELSE IF ~TruthyStr(a.instanceType)
  THEN Err("MissingField", "instanceType", None, "instanceType is required")
  ELSE IF ~TruthyId(a.amiId)
  THEN Err("MissingField", "amiId", None, "amiId is required")
  ELSE IF ~TruthyId(a.subnetId)
  THEN Err("MissingField", "subnetId", None, "subnetId is required")
  ELSE IF a.securityGroupIds = None \/ Len(a.securityGroupIds[1]) = 0
  THEN Err("MissingField", "securityGroupIds", None,
           "securityGroupIds must be provided and non-empty")
  ELSE IF ~TruthyStr(a.environment)
  THEN Err("MissingField", "environment", None, "environment is required")
  ELSE IF ~TruthyStr(a.project)
  THEN Err("MissingField", "project", None, "project is required")
  ELSE IF Inst_validateInstanceType(a.instanceType[1]) # NoError
  THEN Inst_validateInstanceType(a.instanceType[1])
  ELSE IF Inst_validateAmiId(a.amiId[1]) # NoError
  THEN Inst_validateAmiId(a.amiId[1])
  ELSE IF validateSubnetId(a.subnetId[1]) # NoError
  THEN validateSubnetId(a.subnetId[1])
  ELSE IF FirstSgError(a.securityGroupIds[1], 1) # NoError
  THEN FirstSgError(a.securityGroupIds[1], 1)
  ELSE NoError

Inst_validateArgs(a) ==
  IF ~TruthyStr(a.name)
  THEN Err("MissingField", "name", None, "name is required")
  ELSE IF ~TruthyStr(a.instanceType)
  THEN Err("MissingField", "instanceType", None, "instanceType is required")
  ELSE IF ~TruthyId(a.amiId)
  THEN Err("MissingField", "amiId", None, "amiId is required")
  ELSE IF ~TruthyId(a.subnetId)
  THEN Err("MissingField", "subnetId", None, "subnetId is required")
  ELSE IF a.securityGroupIds = None \/ Len(a.securityGroupIds[1]) = 0
  THEN Err("MissingField", "securityGroupIds", None,
           "securityGroupIds must be provided and non-empty")
  ELSE IF ~TruthyStr(a.environment)
  THEN Err("MissingField", "environment", None, "environment is required")
  ELSE IF ~TruthyStr(a.project)
  THEN Err("MissingField", "project", None, "project is required")
  ELSE IF Inst_validateInstanceType(a.instanceType[1]) # NoError
  THEN Inst_validateInstanceType(a.instanceType[1])
  ELSE IF Inst_validateAmiId(a.amiId[1]) # NoError
  THEN Inst_validateAmiId(a.amiId[1])
  ELSE IF validateSubnetId(a.subnetId[1]) # NoError
  THEN validateSubnetId(a.subnetId[1])
  ELSE IF FirstSgError(a.securityGroupIds[1], 1) # NoError
  THEN FirstSgError(a.securityGroupIds[1], 1)
  ELSE IF a.ebsVolumes # None
  THEN Inst_FirstVolumeError(a.ebsVolumes[1], 1)
  ELSE NoError

\* if (volumeArgs.iops) { volumeArgsForVolume.iops = volumeArgs.iops }
IfTruthyNum(o) == IF TruthyNum(o) THEN o ELSE None

Inst_createVolume(volumeArgs, index) ==
  [name |-> volumeArgs.name,
   size |-> volumeArgs.size,
   type |-> OrStr(volumeArgs.type, "gp3"),
   encrypted |-> NotFalse(volumeArgs.encrypted),
   iops |-> IfTruthyNum(volumeArgs.iops),
   throughput |-> IfTruthyNum(volumeArgs.throughput)]

\* The alarms createCloudWatchAlarms creates.
Inst_createCloudWatchAlarms(a) ==
  {"cpu-alarm", "status-alarm"}
    \cup (IF NotFalse(a.enableDetailedMonitoring) THEN {"memory-alarm"} ELSE {})

Inst_createVolumes(a) ==
  IF a.ebsVolumes # None
  THEN [volumes |-> [i \in 1..Len(a.ebsVolumes[1]) |->
                       Inst_createVolume(a.ebsVolumes[1][i], i - 1)],
        attachments |-> [i \in 1..Len(a.ebsVolumes[1]) |->
                       createAttachment(a.ebsVolumes[1][i], i - 1)]]
  ELSE [volumes |-> <<>>, attachments |-> <<>>]


-----------------------------------------------------------------------------
(* The inputs explored.  Each family varies one group of properties of a   *)
(* valid base input over the values the checks distinguish.                *)

ValidSubnet == Id("subnet-", 17, "lower")

ValidSg == Id("sg-", 8, "lower")

ValidAmi == Id("ami-", 8, "lower")

Ids ==
  {id \in {Id(p, n, c) : p \in {"subnet-", "SUBNET-", "subnet", "sg-", ""},
                         n \in 0..MaxHexLen,
                         c \in {"lower", "upper", "nonhex"}} :
     id.len = 0 => id.cls = "lower"}

SgSamples ==
  {ValidSg, Id("sg-", 17, "lower"), Id("sg-", 7, "lower"), Id("sg-", 12, "upper"),
   Id("sg-", 8, "nonhex"), Id("subnet-", 8, "lower"), Id("SG-", 17, "lower"),
   Id("sg-", 18, "lower")}

SeqsUpTo(S, n) == UNION {[1..k -> S] : k \in 0..n}

OptStrs(S) == {None} \cup {Some(x) : x \in S}

SeqSet(s) == {s[i] : i \in 1..Len(s)}

BaseArgs ==
  [name |-> Some("db1"), operatingSystem |-> Some("amazon-linux-2023"),
   workload |-> Some("database"), project |-> Some("p"),
   subnetId |-> Some(ValidSubnet), securityGroupIds |-> Some(<<ValidSg>>),
   environment |-> None, accessType |-> None, backupStrategy |-> None,
   monitoringLevel |-> None, keyPairName |-> None, additionalVolumes |-> None,
   rootVolumeSize |-> None, rootVolumeType |-> None]

PresenceInputs ==
  {[BaseArgs EXCEPT !.name = n, !.operatingSystem = o, !.workload = w,
                    !.project = pr, !.subnetId = sn, !.securityGroupIds = sg] :
     n \in OptStrs({"", "db1"}),
     o \in OptStrs({"", "invalid-os"} \cup SeqSet(OPERATING_SYSTEMS)),
     w \in OptStrs({"", "invalid-workload"} \cup SeqSet(WORKLOAD_TYPES)),
     pr \in OptStrs({"", "p"}),
     sn \in {None, Some(EmptyId), Some(ValidSubnet)},
     sg \in {None, Some(<<>>), Some(<<ValidSg>>)}}

SubnetInputs == {[BaseArgs EXCEPT !.subnetId = Some(id)] : id \in Ids}

SgInputs ==
  {[BaseArgs EXCEPT !.subnetId = Some(sn), !.securityGroupIds = Some(sg)] :
     sn \in {ValidSubnet, Id("subnet-", 4, "lower")},
     sg \in SeqsUpTo(SgSamples, MaxSgs)}

OptionalEnumInputs ==
  {[BaseArgs EXCEPT !.operatingSystem = Some(o), !.environment = e,
                    !.accessType = a, !.backupStrategy = b,
                    !.monitoringLevel = m, !.keyPairName = k] :
     o \in {"amazon-linux-2023", "ubuntu-22-04", "windows-server-2022"},
     e \in OptStrs({"", "prod"} \cup SeqSet(ENVIRONMENTS)),
     a \in OptStrs({"", "public"} \cup SeqSet(ACCESS_TYPES)),
     b \in OptStrs({"", "hourly"} \cup SeqSet(BACKUP_STRATEGIES)),
     m \in OptStrs({"", "full"} \cup SeqSet(MONITORING_LEVELS)),
     k \in OptStrs({"my-key"})}

Volumes ==
  [name : OptStrs({"", "data", "logs"}),
   size : OptStrs({-1, 0, 1, 500, 16384, 16385, 20000}),
   type : OptStrs({"", "invalid-type"} \cup SeqSet(VOLUME_TYPES)),
   availabilityZone : {None},
   iops : OptStrs({0, 99, 100, 64000, 64001}),
   throughput : OptStrs({0, 124, 125, 1000, 1001}),
   encrypted : OptStrs({TRUE, FALSE})]

Vol(n, sz, t, io, th, e) ==
  [name |-> n, size |-> sz, type |-> t, availabilityZone |-> None,
   iops |-> io, throughput |-> th, encrypted |-> e]

VolumeSamples ==
  {Vol(Some("data"), Some(500), None, None, None, None),
   Vol(Some("logs"), Some(100), Some("io2"), Some(3000), None, Some(TRUE)),
   Vol(Some("data"), Some(16384), Some("gp3"), None, Some(125), Some(FALSE)),
   Vol(None, Some(500), None, None, None, None),
   Vol(Some("data"), Some(20000), None, None, None, None),
   Vol(Some("data"), Some(0), None, None, None, None),
   Vol(Some("data"), None, Some("invalid-type"), None, None, None),
   Vol(Some("data"), Some(500), Some("invalid-type"), Some(99), None, None),
   Vol(Some("logs"), Some(500), None, Some(0), Some(0), None),
   Vol(Some("logs"), Some(500), None, Some(64001), Some(1001), None),
   Vol(Some("logs"), Some(500), Some("gp3"), None, Some(124), None)}

VolumeInputs ==
  {[BaseArgs EXCEPT !.additionalVolumes = Some(<<v>>)] : v \in Volumes}

VolumeListInputs ==
  {[BaseArgs EXCEPT !.additionalVolumes = av] :
     av \in OptStrs(SeqsUpTo(VolumeSamples, MaxVolumes))}

\* Inputs on which several checks fail at once.
OrderInputs ==
  {[BaseArgs EXCEPT !.name = n, !.operatingSystem = Some(o), !.workload = w,
                    !.project = pr, !.subnetId = sn,
                    !.securityGroupIds = Some(sg), !.environment = e,
                    !.accessType = a, !.backupStrategy = b,
                    !.monitoringLevel = m, !.additionalVolumes = av] :
     n \in {None, Some("db1")},
     o \in {"invalid-os", "amazon-linux-2"},
     w \in {None, Some("invalid-workload"), Some("database")},
     pr \in {None, Some("p")},
     sn \in {None, Some(ValidSubnet), Some(Id("subnet-", 7, "lower"))},
     sg \in {<<ValidSg>>, <<ValidSg, Id("sg-", 7, "lower")>>,
             <<Id("sg-", 8, "nonhex"), Id("sg-", 7, "lower")>>},
     e \in {None, Some("prod")},
     a \in {None, Some("public")},
     b \in {None, Some("hourly")},
     m \in {None, Some("full")},
     av \in {None,
             Some(<<Vol(Some("data"), Some(0), None, None, None, None)>>),
             Some(<<Vol(Some("data"), Some(500), None, None, None, None),
                    Vol(None, Some(500), None, None, None, None),
                    Vol(Some("logs"), Some(20000), None, None, None, None)>>)}}

RootInputs ==
  {[BaseArgs EXCEPT !.operatingSystem = Some(o), !.workload = Some(w),
                    !.rootVolumeSize = sz] :
     o \in SeqSet(OPERATING_SYSTEMS), w \in SeqSet(WORKLOAD_TYPES),
     sz \in OptStrs({-5, 0, 250})}

\* Caller-supplied tag maps.
TagMaps ==
  UNION {[K -> {"custom", "pulumi"}] : K \in SUBSET {"ManagedBy", "Owner", "Workload"}}

\* Ec2Args: resourceName is the constructor's first parameter.
Ec2BaseArgs ==
  [f \in DOMAIN BaseArgs \cup
          {"resourceName", "team", "application", "costCenter", "instanceType",
           "enableDetailedMonitoring", "enableTerminationProtection", "tags"} |->
     IF f \in DOMAIN BaseArgs THEN BaseArgs[f]
     ELSE IF f = "resourceName" THEN Some("vm") ELSE None]

Ec2PresenceInputs ==
  {[Ec2BaseArgs EXCEPT !.name = n, !.operatingSystem = o, !.workload = w,
                    !.project = pr, !.subnetId = sn, !.securityGroupIds = sg] :
     n \in OptStrs({"", " ", "db1"}),
     o \in OptStrs({"", " ", "invalid-os", "amazon-linux-2023",
                    "windows-server-2022"}),
     w \in OptStrs({"", " ", "invalid-workload", "database", "development"}),
     pr \in OptStrs({"", " ", "p"}),
     sn \in {None, Some(EmptyId), Some(ValidSubnet), Some(Id("subnet-", 4, "lower"))},
     sg \in {None, Some(<<>>), Some(<<ValidSg>>)}}

Ec2ResolveInputs ==
  {[Ec2BaseArgs EXCEPT !.operatingSystem = Some(o), !.workload = Some(w),
                    !.rootVolumeSize = sz, !.rootVolumeType = t,
                    !.environment = e] :
     o \in {"invalid-os"} \cup SeqSet(OPERATING_SYSTEMS),
     w \in {"invalid-workload"} \cup SeqSet(WORKLOAD_TYPES),
     sz \in OptStrs({-5, 0, 250}),
     t \in OptStrs({"", "io1", "invalid-type"}),
     e \in OptStrs({"staging", "prod"})}

Ec2OverrideInputs ==
  {[Ec2BaseArgs EXCEPT !.workload = Some(w), !.environment = e, !.team = t,
                       !.application = ap, !.costCenter = cc,
                       !.enableTerminationProtection = tp] :
     w \in SeqSet(WORKLOAD_TYPES),
     e \in OptStrs({"", "staging"}),
     t \in OptStrs({"", "platform"}),
     ap \in OptStrs({"", "billing"}),
     cc \in OptStrs({"", "CC-42"}),
     tp \in OptStrs(BOOLEAN)}

Ec2TagInputs ==
  {[Ec2BaseArgs EXCEPT !.workload = Some(w), !.resourceName = Some(rn),
                       !.instanceType = it, !.enableDetailedMonitoring = dm,
                       !.tags = tg] :
     w \in {"database", "web-server"},
     rn \in {"vm", "db1"},
     it \in OptStrs({"m5.large"}),
     dm \in OptStrs(BOOLEAN),
     tg \in OptStrs(TagMaps)}

InstBaseArgs ==
  [name |-> Some("web"), instanceType |-> Some("t3.micro"),
   amiId |-> Some(ValidAmi), subnetId |-> Some(ValidSubnet),
   securityGroupIds |-> Some(<<ValidSg>>), environment |-> Some("dev"),
   project |-> Some("p"), rootBlockDevice |-> None, ebsVolumes |-> None,
   enableDetailedMonitoring |-> None, enableSourceDestCheck |-> None,
   enableTerminationProtection |-> None, associatePublicIpAddress |-> None,
   tags |-> None]

InstInstanceInputs ==
  {[InstBaseArgs EXCEPT !.enableDetailedMonitoring = dm,
                        !.enableSourceDestCheck = sd,
                        !.enableTerminationProtection = tp,
                        !.associatePublicIpAddress = ip, !.tags = tg] :
     dm \in OptStrs({FALSE}), sd \in OptStrs({FALSE}),
     tp \in OptStrs(BOOLEAN), ip \in OptStrs(BOOLEAN),
     tg \in OptStrs(TagMaps)}

InstPresenceInputs ==
  {[InstBaseArgs EXCEPT !.name = n, !.instanceType = t, !.amiId = am,
                        !.subnetId = sn, !.securityGroupIds = sg,
                        !.environment = e, !.project = pr] :
     n \in OptStrs({"web"}),
     t \in OptStrs({"", "t3.micro", "t3.huge", "T3.MICRO"}),
     am \in {None, Some(ValidAmi), Some(Id("ami-", 4, "lower"))},
     sn \in {None, Some(ValidSubnet), Some(Id("subnet-", 9, "lower")),
             Some(Id("subnet-", 4, "lower"))},
     sg \in {None, Some(<<>>), Some(<<ValidSg>>), Some(<<ValidSg, Id("sg-", 4, "lower")>>)},
     e \in OptStrs({"", "dev"}),
     pr \in OptStrs({"p"})}

InstSubnetInputs == {[InstBaseArgs EXCEPT !.subnetId = Some(id)] : id \in Ids}

RootBlockDeviceArgs ==
  [volumeSize : {Absent, <<None>>, <<Some(100)>>},
   volumeType : {Absent, <<Some("io1")>>},
   deleteOnTermination : {Absent, <<Some(FALSE)>>},
   encrypted : {Absent, <<None>>, <<Some(TRUE)>>, <<Some(FALSE)>>}]

InstRootInputs ==
  {[InstBaseArgs EXCEPT !.rootBlockDevice = r] : r \in OptStrs(RootBlockDeviceArgs)}

EbsVolumes ==
  [name : OptStrs({"data"}),
   size : OptStrs({-1, 0, 1, 500, 16384, 16385, 20000}),
   type : OptStrs({"invalid-type", "io1"}),
   availabilityZone : OptStrs({"us-east-1a"}),
   iops : OptStrs({0, 99, 3000}),
   throughput : OptStrs({0, 125, 1001}),
   encrypted : OptStrs({TRUE, FALSE})]

InstVolumeInputs ==
  {[InstBaseArgs EXCEPT !.ebsVolumes = Some(<<v>>)] : v \in EbsVolumes}

InstVolumeListInputs ==
  {[InstBaseArgs EXCEPT !.ebsVolumes = ev] :
     ev \in OptStrs(SeqsUpTo(
             {[v EXCEPT !.availabilityZone = Some("us-east-1a")] :
                v \in VolumeSamples}, MaxVolumes))}

\* A list of n valid volumes with distinct names.
ManyVolumes(n) ==
  [i \in 1..n |->
     [Vol(Some("vol" \o ToString(i)), Some(500), None, None, None, None)
        EXCEPT !.availabilityZone = Some("us-east-1a")]]

\* Long lists of additional volumes.
ManyVolumesInputs ==
  {[BaseArgs EXCEPT !.additionalVolumes = Some(ManyVolumes(n))] :
     n \in {MaxAttached - 1, MaxAttached}}

InstManyVolumesInputs ==
  {[InstBaseArgs EXCEPT !.ebsVolumes = Some(ManyVolumes(n))] :
     n \in {MaxAttached - 1, MaxAttached}}

-----------------------------------------------------------------------------
(* The constructors, step by step.                                         *)

\* The order in which the component runs the helpers of utils/: the pc at
\* which each one is called.
UtilsOrder ==
  [validateArgs |-> "start", createRootBlockDevice |-> "validated",
   createAdditionalVolumes |-> "rootDevice", createBackupResources |-> "done"]

InitInputs ==
  \/ component = "EnterpriseEc2Instance"
     /\ \/ args \in PresenceInputs
        \/ args \in SubnetInputs
        \/ args \in SgInputs
        \/ args \in OptionalEnumInputs
        \/ args \in VolumeInputs
        \/ args \in VolumeListInputs
        \/ args \in RootInputs
        \/ args \in OrderInputs
        \/ args \in ManyVolumesInputs
  \/ component = "Ec2"
     /\ \/ args \in Ec2PresenceInputs
        \/ args \in Ec2ResolveInputs
        \/ args \in Ec2OverrideInputs
        \/ args \in Ec2TagInputs
  \/ component = "Ec2Instance"
     /\ \/ args \in InstPresenceInputs
        \/ args \in InstSubnetInputs
        \/ args \in InstRootInputs
        \/ args \in InstInstanceInputs
        \/ args \in InstVolumeInputs
        \/ args \in InstVolumeListInputs
        \/ args \in InstManyVolumesInputs

Init ==
  /\ InitInputs
  /\ pc = "start"
  /\ error = NoError
  /\ warned = FALSE
  /\ rootBlockDevice = None
  /\ volumes = <<>>
  /\ attachments = <<>>
  /\ resolvedConfig = None
  /\ tags = None
  /\ instance = None
  /\ alarms = {}
  /\ dashboard = FALSE
  /\ backup = None
  /\ firstRun = None

\* validateArgs(args): a throw ends the constructor.
UtilsValidateArgs ==
  /\ component = "EnterpriseEc2Instance"
  /\ pc = UtilsOrder.validateArgs
  /\ error' = validateArgs(args).err
  /\ warned' = validateArgs(args).warned
  /\ pc' = IF validateArgs(args).err = NoError THEN "validated" ELSE "failed"
  /\ UNCHANGED <<component, args, rootBlockDevice, volumes, attachments,
               resolvedConfig, tags, instance, alarms, dashboard, backup,
               firstRun>>

UtilsCreateRootBlockDevice ==
  /\ component = "EnterpriseEc2Instance"
  /\ pc = UtilsOrder.createRootBlockDevice
  /\ rootBlockDevice' =
       Some(createRootBlockDevice(args, OS_CONFIGS[args.operatingSystem[1]],
                                  WORKLOAD_CONFIGS[args.workload[1]]))
  /\ pc' = "rootDevice"
  /\ UNCHANGED <<component, args, error, warned, volumes, attachments,
               resolvedConfig, tags, instance, alarms, dashboard, backup,
               firstRun>>

UtilsCreateAdditionalVolumes ==
  /\ component = "EnterpriseEc2Instance"
  /\ pc = UtilsOrder.createAdditionalVolumes
  /\ volumes' = createAdditionalVolumes(args).volumes
  /\ attachments' = createAdditionalVolumes(args).attachments
  /\ pc' = "done"
  /\ UNCHANGED <<component, args, error, warned, rootBlockDevice,
               resolvedConfig, tags, instance, alarms, dashboard, backup,
               firstRun>>

\* createBackupResources(name, instance, config, backupStrategy), for each
\* backup strategy it can be given.
UtilsCreateBackupResources ==
  /\ component = "EnterpriseEc2Instance"
  /\ pc = UtilsOrder.createBackupResources
  /\ \E backupStrategy \in SeqSet(BACKUP_STRATEGIES) :
       backup' = Some([strategy |-> backupStrategy,
                       windows |-> createBackupResources(backupStrategy)])
  /\ pc' = "backup"
  /\ UNCHANGED <<component, args, error, warned, rootBlockDevice, volumes,
               attachments, resolvedConfig, tags, instance, alarms, dashboard,
               firstRun>>

\* Ec2 constructor, line 33.
Ec2Validate ==
  /\ component = "Ec2"
  /\ pc = "start"
  /\ error' = Ec2_validateArgs(args)
  /\ pc' = IF Ec2_validateArgs(args) = NoError THEN "validated" ELSE "failed"
  /\ UNCHANGED <<component, args, warned, rootBlockDevice, volumes, attachments,
               resolvedConfig, tags, instance, alarms, dashboard, backup,
               firstRun>>

\* Ec2 constructor, lines 36-89: setDefaults, getOsConfig, getWorkloadConfig,
\* createEnterpriseTags, createRootBlockDevice, new aws.ec2.Instance and the
\* CloudWatch dashboard.
Ec2Resolve ==
  /\ component = "Ec2"
  /\ pc = "validated"
  /\ LET cfg == Ec2_setDefaults(args)
         osErr == Ec2_getOsConfig(cfg.operatingSystem[1])
         wlErr == Ec2_getWorkloadConfig(cfg.workload[1])
     IN IF osErr # NoError
        THEN /\ error' = osErr /\ pc' = "failed"
             /\ UNCHANGED <<rootBlockDevice, resolvedConfig, tags, instance,
                            dashboard>>
        ELSE IF wlErr # NoError
        THEN /\ error' = wlErr /\ pc' = "failed"
             /\ UNCHANGED <<rootBlockDevice, resolvedConfig, tags, instance,
                            dashboard>>
        ELSE /\ resolvedConfig' = Some(cfg)
             /\ tags' = Some(Ec2_createEnterpriseTags(cfg))
             /\ rootBlockDevice' = Some(Ec2_createRootBlockDevice(cfg))
             /\ instance' =
                  Some(Ec2_instanceArgs(args.resourceName[1], cfg,
                                        Ec2_workloadConfigs(cfg.workload[1])))
             /\ dashboard' = NotFalse(cfg.enableDetailedMonitoring)
             /\ pc' = "done"
             /\ UNCHANGED error
  /\ UNCHANGED <<component, args, warned, volumes, attachments, alarms, backup,
               firstRun>>

\* A second new Ec2(name, args) on the same arguments: setDefaults and
\* createEnterpriseTags once more, the result of the first run kept aside.
Ec2ResolveAgain ==
  /\ component = "Ec2"
  /\ pc = "done"
  /\ firstRun' = Some([config |-> resolvedConfig[1], tags |-> tags[1]])
  /\ resolvedConfig' = Some(Ec2_setDefaults(args))
  /\ tags' = Some(Ec2_createEnterpriseTags(Ec2_setDefaults(args)))
  /\ pc' = "again"
  /\ UNCHANGED <<component, args, error, warned, rootBlockDevice, volumes,
               attachments, instance, alarms, dashboard, backup>>

\* Ec2Instance constructor, line 35.
InstValidate ==
  /\ component = "Ec2Instance"
  /\ pc = "start"
  /\ error' = Inst_validateArgs(args)
  /\ pc' = IF Inst_validateArgs(args) = NoError THEN "validated" ELSE "failed"
  /\ UNCHANGED <<component, args, warned, rootBlockDevice, volumes, attachments,
               resolvedConfig, tags, instance, alarms, dashboard, backup,
               firstRun>>

\* Ec2Instance constructor, lines 46-85: the root block device and the instance.
InstCreateInstance ==
  /\ component = "Ec2Instance"
  /\ pc = "validated"
  /\ rootBlockDevice' = Some(Inst_createRootBlockDevice(args.rootBlockDevice))
  /\ instance' = Some(Inst_instanceArgs(args))
  /\ pc' = "instance"
  /\ UNCHANGED <<component, args, error, warned, volumes, attachments,
               resolvedConfig, tags, alarms, dashboard, backup, firstRun>>

\* Ec2Instance constructor, lines 87-137: the EBS volumes, their attachments
\* and the CloudWatch alarms.
InstCreateVolumes ==
  /\ component = "Ec2Instance"
  /\ pc = "instance"
  /\ volumes' = Inst_createVolumes(args).volumes
  /\ attachments' = Inst_createVolumes(args).attachments
  /\ alarms' = Inst_createCloudWatchAlarms(args)
  /\ pc' = "done"
  /\ UNCHANGED <<component, args, error, warned, rootBlockDevice,
               resolvedConfig, tags, instance, dashboard, backup, firstRun>>

Next ==
  \/ UtilsValidateArgs
  \/ UtilsCreateRootBlockDevice
  \/ UtilsCreateAdditionalVolumes
  \/ UtilsCreateBackupResources
  \/ Ec2Validate
  \/ Ec2Resolve
  \/ Ec2ResolveAgain
  \/ InstValidate
  \/ InstCreateInstance
  \/ InstCreateVolumes

Spec == Init /\ [][Next]_vars


-----------------------------------------------------------------------------
(* Properties.                                                             *)

Validated == pc # "start"

IsEnterprise == component = "EnterpriseEc2Instance"

\* The caller's list of additional volumes ([] when there is none).
SourceVolumes ==
  IF component = "Ec2Instance"
  THEN (IF args.ebsVolumes = None THEN <<>> ELSE args.ebsVolumes[1])
  ELSE (IF args.additionalVolumes = None THEN <<>> ELSE args.additionalVolumes[1])

C3_EnumRejection ==
  (IsEnterprise /\ Validated /\ TruthyStr(args.name)) =>
    /\ (TruthyStr(args.operatingSystem)
        /\ ~Includes(OPERATING_SYSTEMS, args.operatingSystem[1])) =>
         /\ pc = "failed"
         /\ error.kind = "InvalidEnum" /\ error.field = "operatingSystem"
         /\ error.message =
              "Invalid operatingSystem: \"" \o args.operatingSystem[1]
                \o "\". Valid values: amazon-linux-2023, amazon-linux-2, "
                \o "ubuntu-22-04, ubuntu-20-04, rhel-9, rhel-8, centos-7, "
                \o "windows-server-2022, windows-server-2019"
    /\ (TruthyStr(args.operatingSystem)
        /\ Includes(OPERATING_SYSTEMS, args.operatingSystem[1])
        /\ TruthyStr(args.workload)
        /\ ~Includes(WORKLOAD_TYPES, args.workload[1])) =>
         /\ pc = "failed"
         /\ error.kind = "InvalidEnum" /\ error.field = "workload"
         /\ error.message =
              "Invalid workload: \"" \o args.workload[1]
                \o "\". Valid values: development, web-server, application, "
                \o "database, high-performance, testing, production"

C3_Witness ==
  /\ IsEnterprise /\ pc = "failed"
  /\ args.workload = Some("invalid-workload")
  /\ args.project = Some("p") /\ args.subnetId = Some(ValidSubnet)
  /\ error.field = "workload" /\ error.kind = "InvalidEnum"

\* The order of the presence checks in each validateArgs.
PresenceOrder ==
  IF component = "Ec2"
  THEN << "name", "operatingSystem", "workload", "project", "subnetId",
          "securityGroupIds" >>
  ELSE << "name", "operatingSystem", "workload", "subnetId",
          "securityGroupIds", "project" >>

\* Whether a required property is absent or empty (for Ec2, blank).
IsMissing(f) ==
  CASE f = "subnetId" -> ~TruthyId(args.subnetId)
    [] f = "securityGroupIds" ->
         args.securityGroupIds = None \/ Len(args.securityGroupIds[1]) = 0
    [] OTHER -> IF component = "Ec2" THEN Blank(args[f]) ELSE ~TruthyStr(args[f])

MissingPositions == {i \in 1..Len(PresenceOrder) : IsMissing(PresenceOrder[i])}

FirstMissing ==
  PresenceOrder[CHOOSE i \in MissingPositions : \A j \in MissingPositions : i <= j]

\* An enum check of validateArgs that runs before the presence check of f.
PreemptedByEnum(f) ==
  /\ IsEnterprise
  /\ \/ /\ f \in {"workload", "subnetId", "securityGroupIds", "project"}
        /\ ~Includes(OPERATING_SYSTEMS, args.operatingSystem[1])
        /\ error.kind = "InvalidEnum" /\ error.field = "operatingSystem"
     \/ /\ f \in {"subnetId", "securityGroupIds", "project"}
        /\ ~Includes(WORKLOAD_TYPES, args.workload[1])
        /\ error.kind = "InvalidEnum" /\ error.field = "workload"

\* C4: validateArgs (utils and Ec2) fails whenever one of the six required
\* properties is absent or empty; the error is the missing-field error of
\* the first such property in check order, unless the enum check of an
\* operatingSystem or workload that precedes it has failed first; with all
\* six present the error is never a missing-field error.
C4_PresenceChecks ==
  (component \in {"EnterpriseEc2Instance", "Ec2"} /\ Validated) =>
    IF MissingPositions # {}
    THEN /\ pc = "failed"
         /\ \/ /\ error.kind = "MissingField" /\ error.index = None
               /\ error.field = FirstMissing
            \/ PreemptedByEnum(FirstMissing)
    ELSE ~(error.kind = "MissingField" /\ error.index = None)

C4_Witness ==
  /\ component = "Ec2" /\ pc = "failed"
  /\ args.name = Some("db1") /\ args.project = None /\ args.subnetId = None
  /\ error.field = "project"


\* An identifier of the shape the specification gives: the literal token
\* followed by exactly 8 or exactly 17 lowercase hexadecimal characters.
StrictShape(token, id) ==
  id.prefix = token /\ id.cls = "lower" /\ id.len \in {8, 17}

\* validateArgs reaches the subnet format check: the checks before it pass.
SubnetCheckReached ==
  /\ Validated
  /\ \/ /\ IsEnterprise
        /\ validateArgsChecks([args EXCEPT !.subnetId = Some(ValidSubnet)])
             .field \notin {"name", "operatingSystem", "workload", "subnetId",
                            "securityGroupIds", "project"}
        /\ TruthyId(args.subnetId)
     \/ /\ component = "Ec2Instance"
        /\ Inst_validateArgs([args EXCEPT !.subnetId = Some(ValidSubnet)])
             .kind # "MissingField"
        /\ Inst_validateArgs([args EXCEPT !.subnetId = Some(ValidSubnet)])
             .field \notin {"instanceType", "amiId"}
        /\ TruthyId(args.subnetId)

SubnetRejected == error.kind = "InvalidFormat" /\ error.field = "subnetId"

\* C5 as stated: a subnetId passes the format check if and only if it is
\* "subnet-" followed by exactly 8 or exactly 17 lowercase hexadecimal
\* characters.
C5_SubnetExactShape ==
  SubnetCheckReached =>
    (~SubnetRejected <=> StrictShape("subnet-", args.subnetId[1]))

\* What validateSubnetId does: it passes "subnet-" in either case followed by
\* 8 to 17 hexadecimal characters in either case.
C5_SubnetAsCoded ==
  SubnetCheckReached =>
    (~SubnetRejected <=>
       /\ args.subnetId[1].prefix \in {"subnet-", "SUBNET-"}
       /\ args.subnetId[1].cls # "nonhex"
       /\ args.subnetId[1].len \in 8..17)

SecurityGroups == args.securityGroupIds[1]

\* validateArgs reaches the security-group format checks.
SgCheckReached == SubnetCheckReached /\ ~SubnetRejected

SgRejectedAt(i) ==
  /\ pc = "failed"
  /\ error.kind = "InvalidFormat" /\ error.field = "securityGroupIds"
  /\ error.index = Some(i - 1)

\* The first position of SecurityGroups that fails the test Ok.
FirstNot(Ok(_)) ==
  CHOOSE i \in 1..Len(SecurityGroups) :
    ~Ok(SecurityGroups[i]) /\ \A j \in 1..(i - 1) : Ok(SecurityGroups[j])

SgStrict(id) == StrictShape("sg-", id)

SgAsCoded(id) ==
  id.prefix \in {"sg-", "SG-"} /\ id.cls # "nonhex" /\ id.len \in 8..17

\* C6 as stated: the security-group check passes only if every element has
\* the "sg-" shape (8 or 17 lowercase hexadecimal characters); otherwise
\* validation fails with the index of the first element that has not.
C6_SgShapeAndIndex ==
  SgCheckReached =>
    IF \A i \in 1..Len(SecurityGroups) : SgStrict(SecurityGroups[i])
    THEN error.field # "securityGroupIds"
    ELSE SgRejectedAt(FirstNot(SgStrict))

\* What the loop over validateSecurityGroupId does: with the shape the code
\* tests, the error carries the index of the first element that fails it.
C6_SgIndexAsCoded ==
  SgCheckReached =>
    IF \A i \in 1..Len(SecurityGroups) : SgAsCoded(SecurityGroups[i])
    THEN error.field # "securityGroupIds"
    ELSE SgRejectedAt(FirstNot(SgAsCoded))

\* The check of one additional volume, in the component at hand.
VolumeCheck(v, index) ==
  IF component = "Ec2Instance"
  THEN Inst_validateEbsVolume(v, index)
  ELSE validateAdditionalVolume(v, index)

\* validateArgs reaches the volume at position i: the same input without
\* volumes is valid, and so is every volume before i.
VolumeReached(i) ==
  /\ Validated
  /\ component \in {"EnterpriseEc2Instance", "Ec2Instance"}
  /\ IF IsEnterprise
     THEN validateArgs([args EXCEPT !.additionalVolumes = None]).err = NoError
     ELSE Inst_validateArgs([args EXCEPT !.ebsVolumes = None]) = NoError
  /\ \A j \in 1..(i - 1) : VolumeCheck(SourceVolumes[j], j - 1) = NoError

VolumeRejected(i, f) ==
  /\ pc = "failed"
  /\ error.kind = "OutOfRange" /\ error.field = f /\ error.index = Some(i - 1)

\* C7: for a named volume at any index, validation accepts the size if and
\* only if 1 <= size <= 16384; 0, a negative, a missing or a larger size
\* fails with the out-of-range error that carries the index.
C7_VolumeSizeRange ==
  \A i \in 1..Len(SourceVolumes) :
    (VolumeReached(i) /\ TruthyStr(SourceVolumes[i].name)) =>
      IF /\ SourceVolumes[i].size # None
         /\ SourceVolumes[i].size[1] >= 1
         /\ SourceVolumes[i].size[1] <= 16384
      THEN ~(error.field = "size" /\ error.index = Some(i - 1))
      ELSE VolumeRejected(i, "size")

C7_Witness ==
  /\ IsEnterprise
  /\ Len(SourceVolumes) = 2
  /\ SourceVolumes[1].size = Some(500)
  /\ SourceVolumes[2].size = Some(20000)
  /\ VolumeRejected(2, "size")

\* The volume at position i passes the name, size and type checks.
VolumeRangeChecksReached(i) ==
  /\ VolumeReached(i)
  /\ VolumeCheck([SourceVolumes[i] EXCEPT !.iops = None, !.throughput = None],
                 i - 1) = NoError

OutOfRange(o, min, max) == o # None /\ (o[1] < min \/ o[1] > max)

\* C8 as stated: a supplied iops outside 100..64000, or a supplied throughput
\* outside 125..1000, 0 included, fails with the out-of-range error that
\* carries the index.
C8_IopsThroughputRange ==
  \A i \in 1..Len(SourceVolumes) :
    VolumeRangeChecksReached(i) =>
      /\ OutOfRange(SourceVolumes[i].iops, 100, 64000) =>
           VolumeRejected(i, "iops")
      /\ (~OutOfRange(SourceVolumes[i].iops, 100, 64000)
          /\ OutOfRange(SourceVolumes[i].throughput, 125, 1000)) =>
           VolumeRejected(i, "throughput")

\* What the checks do: a supplied 0 is taken as not supplied and passes.
C8_RangeAsCoded ==
  \A i \in 1..Len(SourceVolumes) :
    VolumeRangeChecksReached(i) =>
      /\ (OutOfRange(SourceVolumes[i].iops, 100, 64000)
          /\ SourceVolumes[i].iops # Some(0)) => VolumeRejected(i, "iops")
      /\ SourceVolumes[i].iops = Some(0) => ~VolumeRejected(i, "iops")
      /\ SourceVolumes[i].throughput = Some(0) => ~VolumeRejected(i, "throughput")

OptionalEnums == << "environment", "accessType", "backupStrategy", "monitoringLevel" >>

\* The allowed values as the error message lists them.
AllowedText(f) ==
  CASE f = "environment" ->
         "development, staging, production, disaster-recovery, testing"
    [] f = "accessType" ->
         "private-only, bastion-access, public-access, load-balancer"
    [] f = "backupStrategy" -> "none, daily, weekly, critical"
    [] f = "monitoringLevel" -> "basic, detailed, enhanced, enterprise"

Allowed(f) ==
  CASE f = "environment" ->
         {"development", "staging", "production", "disaster-recovery", "testing"}
    [] f = "accessType" ->
         {"private-only", "bastion-access", "public-access", "load-balancer"}
    [] f = "backupStrategy" -> {"none", "daily", "weekly", "critical"}
    [] f = "monitoringLevel" -> {"basic", "detailed", "enhanced", "enterprise"}

\* The optional enums supplied (non-empty) with a value outside their set.
BadOptionalEnums ==
  {i \in 1..Len(OptionalEnums) :
     /\ TruthyStr(args[OptionalEnums[i]])
     /\ args[OptionalEnums[i]][1] \notin Allowed(OptionalEnums[i])}

FirstBadOptionalEnum ==
  OptionalEnums[CHOOSE i \in BadOptionalEnums : \A j \in BadOptionalEnums : i <= j]

C10_VolumeType ==
  IsEnterprise =>
    \A i \in 1..Len(SourceVolumes) :
      (/\ VolumeReached(i)
       /\ TruthyStr(SourceVolumes[i].name)
       /\ ~SizeInvalid(SourceVolumes[i].size)) =>
        IF /\ TruthyStr(SourceVolumes[i].type)
           /\ SourceVolumes[i].type[1] \notin {"standard", "gp2", "gp3", "io1", "io2"}
        THEN /\ pc = "failed"
             /\ error.kind = "InvalidEnum"
             /\ error.message =
                  "Invalid volume type: \"" \o SourceVolumes[i].type[1]
                    \o "\". Valid values: standard, gp2, gp3, io1, io2"
        ELSE error.field = "type" =>
               \E j \in (i + 1)..Len(SourceVolumes) :
                 /\ TruthyStr(SourceVolumes[j].type)
                 /\ SourceVolumes[j].type[1]
                      \notin {"standard", "gp2", "gp3", "io1", "io2"}

C10_Witness ==
  /\ IsEnterprise /\ pc = "failed"
  /\ Len(SourceVolumes) = 2
  /\ SourceVolumes[1].type = None
  /\ SourceVolumes[2].type = Some("invalid-type")
  /\ SourceVolumes[2].size = Some(500)
  /\ error.field = "type"


\* The components that resolve a root volume size from rootVolumeSize.
ResolvesRootVolume ==
  component \in {"EnterpriseEc2Instance", "Ec2"} /\ rootBlockDevice # None

\* The root volume size when none is supplied, as the component computes it.
DefaultRootVolumeSize ==
  IF component = "Ec2"
  THEN Ec2_getDefaultRootVolumeSize(args.operatingSystem[1], args.workload[1])
  ELSE WORKLOAD_CONFIGS[args.workload[1]].rootVolumeSize

\* C11 as stated: a supplied rootVolumeSize is the resolved root volume size,
\* for every workload and every operating system.
C11_SuppliedSizeWins ==
  (ResolvesRootVolume /\ args.rootVolumeSize # None) =>
    rootBlockDevice[1].volumeSize = args.rootVolumeSize

\* C11, amended: a supplied rootVolumeSize other than 0 is the resolved root
\* volume size, for every workload and every operating system; a supplied 0
\* resolves as if no size was supplied.
C11_NonZeroSizeWins ==
  (ResolvesRootVolume /\ args.rootVolumeSize # None) =>
    IF args.rootVolumeSize[1] # 0
    THEN rootBlockDevice[1].volumeSize = args.rootVolumeSize
    ELSE rootBlockDevice[1].volumeSize = Some(DefaultRootVolumeSize)

C11_Witness ==
  /\ ResolvesRootVolume
  /\ args.operatingSystem = Some("windows-server-2022")
  /\ args.workload = Some("high-performance")
  /\ args.rootVolumeSize = Some(250)
  /\ rootBlockDevice[1].volumeSize = Some(250)

\* C12 as stated: for every input that passes validation the resolved root
\* volume size is strictly positive.
C12_RootSizePositive ==
  ResolvesRootVolume =>
    /\ rootBlockDevice[1].volumeSize # None
    /\ rootBlockDevice[1].volumeSize[1] > 0

\* What the code does: the size is positive unless the caller supplied a
\* negative one, which no validator refuses and which is kept as it is.
C12_RootSizeAsCoded ==
  ResolvesRootVolume =>
    /\ rootBlockDevice[1].volumeSize # None
    /\ \/ rootBlockDevice[1].volumeSize[1] > 0
       \/ /\ args.rootVolumeSize # None /\ args.rootVolumeSize[1] < 0
          /\ rootBlockDevice[1].volumeSize = args.rootVolumeSize

\* C13 as stated: with no rootVolumeSize supplied, the resolved root volume
\* size is the rootVolumeSize of the workload's catalog entry (every entry
\* has one, so the operating system's default is never needed).
C13_DefaultSizeFromCatalog ==
  (ResolvesRootVolume /\ args.rootVolumeSize = None) =>
    rootBlockDevice[1].volumeSize =
      Some(WORKLOAD_CONFIGS[args.workload[1]].rootVolumeSize)

\* What the code does: createRootBlockDevice of utils/volumes follows the
\* catalog; Ec2 computes 20 (50 on Windows), doubled for database and
\* high-performance.
C13_DefaultSizeAsCoded ==
  (ResolvesRootVolume /\ args.rootVolumeSize = None) =>
    rootBlockDevice[1].volumeSize =
      Some(IF component = "Ec2"
           THEN (IF args.operatingSystem[1] \in
                      {"windows-server-2022", "windows-server-2019"}
                 THEN 50 ELSE 20)
                * (IF args.workload[1] \in {"database", "high-performance"}
                   THEN 2 ELSE 1)
           ELSE WORKLOAD_CONFIGS[args.workload[1]].rootVolumeSize)

Resolved == component = "Ec2" /\ resolvedConfig # None

\* C14 as stated: the resolved environment is the supplied one when one is
\* supplied, and otherwise the workload's entry of the workload-environment
\* map.
C14_EnvironmentFromMap ==
  Resolved =>
    resolvedConfig[1].environment =
      IF TruthyStr(args.environment) THEN args.environment
      ELSE Some(WORKLOAD_ENVIRONMENTS[args.workload[1]])

\* What Ec2 does: a supplied environment is kept; otherwise production,
\* database and high-performance give production and every other workload
\* gives development.
C14_EnvironmentAsCoded ==
  Resolved =>
    resolvedConfig[1].environment =
      IF TruthyStr(args.environment) THEN args.environment
      ELSE IF args.workload[1] \in {"production", "database", "high-performance"}
      THEN Some("production")
      ELSE Some("development")

\* C15 as stated: the resolved termination protection is the supplied
\* enableTerminationProtection when it is supplied, and otherwise the
\* terminationProtection of the workload's catalog entry.
C15_TerminationProtectionFromCatalog ==
  Resolved =>
    /\ resolvedConfig[1].enableTerminationProtection =
         IF args.enableTerminationProtection # None
         THEN args.enableTerminationProtection
         ELSE Some(WORKLOAD_CONFIGS[args.workload[1]].terminationProtection)
    /\ instance[1].disableApiTermination =
         resolvedConfig[1].enableTerminationProtection[1]

\* What Ec2 does: a supplied flag is kept, an explicit false included;
\* otherwise the flag is true for production, database and high-performance
\* and false for every other workload.
C15_TerminationProtectionAsCoded ==
  Resolved =>
    /\ resolvedConfig[1].enableTerminationProtection =
         IF args.enableTerminationProtection # None
         THEN args.enableTerminationProtection
         ELSE Some(args.workload[1] \in
                     {"production", "database", "high-performance"})
    /\ instance[1].disableApiTermination =
         resolvedConfig[1].enableTerminationProtection[1]

\* C16 as stated: the resolved root volume type is the supplied
\* rootVolumeType when one is supplied; otherwise io2 for workload
\* high-performance and gp3 for every other workload.
C16_RootVolumeType ==
  ResolvesRootVolume =>
    rootBlockDevice[1].volumeType =
      IF TruthyStr(args.rootVolumeType) THEN args.rootVolumeType
      ELSE IF args.workload[1] = "high-performance" THEN Some("io2")
      ELSE Some("gp3")

\* What the code does: Ec2 resolves the type as stated; createRootBlockDevice
\* of utils/volumes returns gp3 for every input.
C16_RootVolumeTypeAsCoded ==
  ResolvesRootVolume =>
    rootBlockDevice[1].volumeType =
      IF component = "Ec2"
      THEN (IF TruthyStr(args.rootVolumeType) THEN args.rootVolumeType
            ELSE IF args.workload[1] = "high-performance" THEN Some("io2")
            ELSE Some("gp3"))
      ELSE Some("gp3")


MandatoryTags ==
  {"Name", "Environment", "Project", "Team", "Application", "CostCenter",
   "Workload", "OperatingSystem", "ManagedBy"}

CallerTags == IF args.tags = None THEN << >> ELSE args.tags[1]

\* The value each mandatory key has before the caller's tags are merged in.
DerivedTags(name) ==
  IF component = "Ec2"
  THEN [Name |-> name,
        Environment |-> resolvedConfig[1].environment[1],
        Project |-> args.project[1],
        Team |-> resolvedConfig[1].team[1],
        Application |-> resolvedConfig[1].application[1],
        CostCenter |-> resolvedConfig[1].costCenter[1],
        Workload |-> args.workload[1],
        OperatingSystem |-> args.operatingSystem[1],
        ManagedBy |-> "pulumi"]
  ELSE [Name |-> name, Environment |-> args.environment[1],
        Project |-> args.project[1], ManagedBy |-> "pulumi"]

\* composed is derived with the caller's tags on top.
MergedOnTop(composed, derived) ==
  /\ DOMAIN composed = DOMAIN derived \cup DOMAIN CallerTags
  /\ \A k \in DOMAIN CallerTags : composed[k] = CallerTags[k]
  /\ \A k \in DOMAIN derived \ DOMAIN CallerTags : composed[k] = derived[k]

\* C19: the composed tag map holds the caller's value for every key of the
\* caller's tags, a mandatory key such as ManagedBy included, and the
\* derived value for every mandatory key the caller did not supply.
C19_CallerTagsOnTop ==
  /\ Resolved =>
       /\ MergedOnTop(tags[1], DerivedTags(args.name[1] \o "-instance"))
       /\ MergedOnTop(instance[1].tags,
                      DerivedTags(args.resourceName[1] \o "-instance"))
  /\ (component = "Ec2Instance" /\ instance # None) =>
       MergedOnTop(instance[1].tags, DerivedTags(args.name[1]))

C19_Witness ==
  /\ Resolved
  /\ args.tags # None
  /\ DOMAIN args.tags[1] = {"ManagedBy", "Owner"}
  /\ args.tags[1]["ManagedBy"] = "custom"
  /\ tags[1]["ManagedBy"] = "custom"
  /\ tags[1]["Workload"] = "web-server"

\* C20: team, application and costCenter each resolve to the supplied
\* (non-empty) value, and to "infrastructure", "general" and "IT-001" when
\* not supplied, whatever the other two are.
C20_OwnershipDefaults ==
  Resolved =>
    /\ resolvedConfig[1].team =
         (IF TruthyStr(args.team) THEN args.team ELSE Some("infrastructure"))
    /\ resolvedConfig[1].application =
         (IF TruthyStr(args.application) THEN args.application
          ELSE Some("general"))
    /\ resolvedConfig[1].costCenter =
         (IF TruthyStr(args.costCenter) THEN args.costCenter
          ELSE Some("IT-001"))

C20_Witness ==
  /\ Resolved
  /\ args.team = Some("platform")
  /\ args.application = None
  /\ args.costCenter = Some("CC-42")
  /\ resolvedConfig[1].team = Some("platform")
  /\ resolvedConfig[1].application = Some("general")
  /\ resolvedConfig[1].costCenter = Some("CC-42")

-----------------------------------------------------------------------------
(* C21: the advisory about a missing key pair.                             *)

\* The input is valid apart from, possibly, its keyPairName.
OtherwiseValid ==
  /\ IsEnterprise
  /\ Validated
  /\ validateArgs([args EXCEPT !.keyPairName = Some("my-key")]).err = NoError

\* C21 as stated: for every operating system whose catalog profile has
\* requiresKeyPair = true, validating an otherwise valid input with no
\* keyPairName emits the advisory warning and succeeds; a missing keyPairName
\* never makes validation fail.
C21_WarnsWhenKeyPairRequired ==
  (OtherwiseValid /\ ~TruthyStr(args.keyPairName)) =>
    /\ pc # "failed"
    /\ OS_CONFIGS[args.operatingSystem[1]].requiresKeyPair => warned

\* What validateArgs does: it warns exactly when the operating system's name
\* contains "linux" (the two Amazon Linux systems) and no keyPairName is
\* given, and it never fails for a missing keyPairName.
C21_WarningAsCoded ==
  OtherwiseValid =>
    /\ pc # "failed"
    /\ warned <=> (/\ args.operatingSystem[1] \in {"amazon-linux-2023",
                                                   "amazon-linux-2"}
                   /\ ~TruthyStr(args.keyPairName))

-----------------------------------------------------------------------------
(* C22: the names of the additional volumes.                               *)

\* The names of the additional volumes are pairwise distinct.
DistinctVolumeNames ==
  \A i, j \in 1..Len(SourceVolumes) :
    i # j => SourceVolumes[i].name # SourceVolumes[j].name

\* C22 as stated: in every configuration that passes validation the names of
\* the additional volumes are pairwise distinct, and an input with two
\* additional volumes of the same name never reaches volume creation.
C22_VolumeNamesUnique ==
  IsEnterprise =>
    /\ (Validated /\ pc # "failed") => DistinctVolumeNames
    /\ ~DistinctVolumeNames => volumes = << >>

\* What validateArgs and createAdditionalVolumes do: a list of volumes that
\* are each valid is accepted and created whole, whether or not two of them
\* have the same name.
C22_DuplicatesAsCoded ==
  (IsEnterprise /\ pc = "done") =>
    /\ Len(volumes) = Len(SourceVolumes)
    /\ \A i \in 1..Len(volumes) : volumes[i].name = SourceVolumes[i].name

-----------------------------------------------------------------------------
(* C23: a failed validation leaves nothing behind.                         *)

\* Nothing has been provisioned and no configuration has been resolved.
NothingApplied ==
  /\ instance = None
  /\ rootBlockDevice = None
  /\ volumes = << >>
  /\ attachments = << >>
  /\ alarms = {}
  /\ dashboard = FALSE
  /\ resolvedConfig = None
  /\ tags = None

\* Every check on the input that can throw in the constructor of the
\* component has passed, stated on the input itself.
InputPassesAllChecks ==
  /\ TruthyStr(args.name)
  /\ TruthyStr(args.project)
  /\ TruthyId(args.subnetId)
  /\ args.securityGroupIds # None /\ Len(args.securityGroupIds[1]) > 0
  /\ component = "Ec2" =>
       /\ args.operatingSystem # None
       /\ args.operatingSystem[1] \in DOMAIN OS_CONFIGS
       /\ args.workload # None
       /\ args.workload[1] \in DOMAIN WORKLOAD_CONFIGS
  /\ component = "Ec2Instance" =>
       /\ TruthyStr(args.environment)
       /\ \A i \in 1..Len(SourceVolumes) :
            /\ TruthyStr(SourceVolumes[i].name)
            /\ SourceVolumes[i].size # None
            /\ SourceVolumes[i].size[1] \in 1..16384
            /\ TruthyStr(SourceVolumes[i].availabilityZone)

\* C23: in the constructors of Ec2 and Ec2Instance, whenever validation of
\* the input fails nothing is applied (no instance, volume, attachment, alarm
\* or dashboard is created and no resolved configuration is left), and
\* whenever anything has been applied every check on the input had passed:
\* validation completes before the first provisioning step.
C23_NothingAppliedOnFailure ==
  component \in {"Ec2", "Ec2Instance"} =>
    /\ pc = "failed" => (error # NoError /\ NothingApplied)
    /\ ~NothingApplied => (error = NoError /\ InputPassesAllChecks)

\* Both classes fail validation with nothing applied, Ec2 also on an
\* unsupported operating system found after setDefaults, and Ec2Instance on
\* an invalid second EBS volume.
C23_Witness ==
  /\ pc = "failed"
  /\ NothingApplied
  /\ \/ component = "Ec2" /\ error.kind = "Unsupported"
     \/ /\ component = "Ec2Instance"
        /\ error.index = Some(1)
        /\ error.field = "size"

-----------------------------------------------------------------------------
(* C24: resolution after a successful validation.                          *)

\* C24 as stated: for every input accepted by validateArgs, the catalogs
\* hold an entry for its operatingSystem and workload and resolution does not
\* fail: the unsupported-OS and unsupported-workload errors are never thrown
\* after a successful validation.
C24_ResolutionNeverFails ==
  /\ (IsEnterprise /\ Validated /\ pc # "failed") =>
       /\ args.operatingSystem[1] \in DOMAIN OS_CONFIGS
       /\ args.workload[1] \in DOMAIN WORKLOAD_CONFIGS
       /\ args.workload[1] \in DOMAIN WORKLOAD_ENVIRONMENTS
  /\ Validated => error.kind # "Unsupported"

\* What the code does.  The validateArgs of utils/validation accepts only
\* operating systems and workloads that the catalogs and the tables of
\* Ec2.getOsConfig and Ec2.getWorkloadConfig hold; the validateArgs of class
\* Ec2 checks presence only, and its constructor throws the unsupported-OS or
\* unsupported-workload error after validation exactly when the value
\* is outside the table.
C24_ResolutionAsCoded ==
  /\ (IsEnterprise /\ Validated /\ pc # "failed") =>
       /\ args.operatingSystem[1] \in DOMAIN OS_CONFIGS
       /\ args.workload[1] \in DOMAIN WORKLOAD_CONFIGS
       /\ args.workload[1] \in DOMAIN WORKLOAD_ENVIRONMENTS
       /\ Ec2_getOsConfig(args.operatingSystem[1]) = NoError
       /\ Ec2_getWorkloadConfig(args.workload[1]) = NoError
  /\ (component = "Ec2" /\ pc \notin {"start", "validated"}
        /\ Ec2_validateArgs(args) = NoError) =>
       (error.kind = "Unsupported" <=>
          \/ args.operatingSystem[1] \notin DOMAIN OS_CONFIGS
          \/ args.workload[1] \notin DOMAIN WORKLOAD_CONFIGS)

-----------------------------------------------------------------------------
(* C25: the enum-valued fields handed to provisioning.                     *)

\* An optional enum-valued field is absent, empty or a member of its set.
InSetIfGiven(o, set) == TruthyStr(o) => Includes(set, o[1])

\* C25 as stated: every enum-valued field of a resolved configuration handed
\* to provisioning (operatingSystem, workload, environment, root volume type,
\* monitoring level, backup strategy) is a member of its closed set; no input
\* leads to an instance being created with a value outside those sets.
C25_EnumsInClosedSets ==
  /\ (IsEnterprise /\ rootBlockDevice # None) =>
       /\ Includes(OPERATING_SYSTEMS, args.operatingSystem[1])
       /\ Includes(WORKLOAD_TYPES, args.workload[1])
       /\ InSetIfGiven(args.environment, ENVIRONMENTS)
       /\ InSetIfGiven(args.monitoringLevel, MONITORING_LEVELS)
       /\ InSetIfGiven(args.backupStrategy, BACKUP_STRATEGIES)
       /\ Includes(VOLUME_TYPES, rootBlockDevice[1].volumeType[1])
  /\ (component = "Ec2" /\ instance # None) =>
       /\ Includes(OPERATING_SYSTEMS, resolvedConfig[1].operatingSystem[1])
       /\ Includes(WORKLOAD_TYPES, resolvedConfig[1].workload[1])
       /\ Includes(ENVIRONMENTS, resolvedConfig[1].environment[1])
       /\ Includes(ENVIRONMENTS, instance[1].tags["Environment"])
       /\ Includes(VOLUME_TYPES, resolvedConfig[1].rootVolumeType[1])
       /\ Includes(VOLUME_TYPES, rootBlockDevice[1].volumeType[1])

\* What class Ec2 does: an instance is created only for an operating system
\* and a workload of its tables, while a non-empty environment or
\* rootVolumeType of the input is taken as given, whatever its value.
C25_EnumsAsCoded ==
  (component = "Ec2" /\ instance # None) =>
    /\ Includes(OPERATING_SYSTEMS, resolvedConfig[1].operatingSystem[1])
    /\ Includes(WORKLOAD_TYPES, resolvedConfig[1].workload[1])
    /\ TruthyStr(args.environment) =>
         /\ resolvedConfig[1].environment = args.environment
         /\ instance[1].tags["Environment"] = args.environment[1]
    /\ TruthyStr(args.rootVolumeType) =>
         /\ resolvedConfig[1].rootVolumeType = args.rootVolumeType
         /\ rootBlockDevice[1].volumeType = args.rootVolumeType
    /\ ~TruthyStr(args.environment) =>
         Includes(ENVIRONMENTS, resolvedConfig[1].environment[1])
    /\ ~TruthyStr(args.rootVolumeType) =>
         Includes(VOLUME_TYPES, resolvedConfig[1].rootVolumeType[1])

-----------------------------------------------------------------------------
(* C26: resolving the same input twice.                                    *)

-----------------------------------------------------------------------------
(* C27: the default instance type of each workload.                        *)

\* The Workload Types table of the README.
DocumentedInstanceType ==
  [w \in {"development", "web-server", "application", "database",
          "high-performance", "testing", "production"} |->
     CASE w = "development" -> "t3.micro"
       [] w = "web-server" -> "t3.medium"
       [] w = "application" -> "t3.large"
       [] w = "database" -> "r6i.large"
       [] w = "high-performance" -> "c6i.xlarge"
       [] w = "testing" -> "t3.micro"
       [] w = "production" -> "m6i.large"]

\* An instance was created by class Ec2 for an input without instanceType.
DefaultedInstanceType ==
  component = "Ec2" /\ instance # None /\ ~TruthyStr(args.instanceType)

\* C27 as stated: for every workload the default instance type chosen by the
\* component equals the one of the documented workload table and of the
\* workload catalog, and the component's inline workload maps agree with the
\* catalog.
C27_InstanceTypeFromCatalog ==
  DefaultedInstanceType =>
    /\ WORKLOAD_CONFIGS[args.workload[1]].instanceType
         = DocumentedInstanceType[args.workload[1]]
    /\ instance[1].instanceType = DocumentedInstanceType[args.workload[1]]
    /\ Ec2_getDefaultInstanceType(args.workload[1])
         = WORKLOAD_CONFIGS[args.workload[1]].instanceType
    /\ Ec2_workloadConfigs(args.workload[1]).instanceType
         = WORKLOAD_CONFIGS[args.workload[1]].instanceType

\* What the code does: the catalog agrees with the documented table, while
\* class Ec2 takes the instance type from its own table, which agrees with
\* them for development only.
C27_InstanceTypeAsCoded ==
  DefaultedInstanceType =>
    /\ WORKLOAD_CONFIGS[args.workload[1]].instanceType
         = DocumentedInstanceType[args.workload[1]]
    /\ instance[1].instanceType =
         (CASE args.workload[1] = "development" -> "t3.micro"
            [] args.workload[1] = "testing" -> "t3.small"
            [] args.workload[1] = "web-server" -> "t3.small"
            [] args.workload[1] = "application" -> "t3.medium"
            [] args.workload[1] = "database" -> "m5.large"
            [] args.workload[1] = "high-performance" -> "c5.xlarge"
            [] args.workload[1] = "production" -> "m5.large")
    /\ (instance[1].instanceType = DocumentedInstanceType[args.workload[1]])
         <=> args.workload[1] = "development"

-----------------------------------------------------------------------------
(* C28: the order of the checks of validateArgs.                           *)

\* One check: whether it fails on the input, and the error it then reports.
Check(fails, kind, field, index) ==
  [fails |-> fails, kind |-> kind, field |-> field, index |-> index]

\* A required enum value is present and outside its set.
OutsideSet(o, set) == TruthyStr(o) /\ ~Includes(set, o[1])

SgList == IF args.securityGroupIds = None THEN << >> ELSE args.securityGroupIds[1]

\* The checks in the order the claim gives, each stated on the input alone.
ChecksInOrder ==
  << Check(~TruthyStr(args.name), "MissingField", "name", None),
     Check(~TruthyStr(args.operatingSystem), "MissingField", "operatingSystem",
           None),
     Check(OutsideSet(args.operatingSystem, OPERATING_SYSTEMS), "InvalidEnum",
           "operatingSystem", None),
     Check(~TruthyStr(args.workload), "MissingField", "workload", None),
     Check(OutsideSet(args.workload, WORKLOAD_TYPES), "InvalidEnum", "workload",
           None),
     Check(~TruthyId(args.subnetId), "MissingField", "subnetId", None),
     Check(Len(SgList) = 0, "MissingField", "securityGroupIds", None),
     Check(~TruthyStr(args.project), "MissingField", "project", None),
     Check(TruthyId(args.subnetId) /\ ~RegexTest("subnet-", args.subnetId[1]),
           "InvalidFormat", "subnetId", None) >>
  \o [i \in 1..Len(SgList) |->
        Check(~RegexTest("sg-", SgList[i]), "InvalidFormat", "securityGroupIds",
              Some(i - 1))]
  \o << Check(OutsideSet(args.environment, ENVIRONMENTS), "InvalidEnum",
              "environment", None),
        Check(OutsideSet(args.accessType, ACCESS_TYPES), "InvalidEnum",
              "accessType", None),
        Check(OutsideSet(args.backupStrategy, BACKUP_STRATEGIES), "InvalidEnum",
              "backupStrategy", None),
        Check(OutsideSet(args.monitoringLevel, MONITORING_LEVELS), "InvalidEnum",
              "monitoringLevel", None) >>
  \o [i \in 1..Len(SourceVolumes) |->
        Check(validateAdditionalVolume(SourceVolumes[i], i - 1) # NoError,
              validateAdditionalVolume(SourceVolumes[i], i - 1).kind,
              validateAdditionalVolume(SourceVolumes[i], i - 1).field,
              validateAdditionalVolume(SourceVolumes[i], i - 1).index)]

FailingChecks(checks) == {k \in 1..Len(checks) : checks[k].fails}

FirstFailing(checks) ==
  CHOOSE k \in FailingChecks(checks) : \A l \in FailingChecks(checks) : k <= l

\* The checks that precede the additional volumes (and the key pair warning).
ChecksBeforeVolumes == 13 + Len(SgList)

\* C28: validateArgs reports exactly one error, that of the first failing
\* check in the order name, operatingSystem (presence then enum), workload
\* (presence then enum), subnetId presence, securityGroupIds presence,
\* project presence, subnetId format, security-group formats in list order,
\* environment, accessType, backupStrategy, monitoringLevel, additional
\* volumes in list order; nothing later runs once a check has failed (the
\* key pair warning, which follows monitoringLevel, is not emitted), and
\* validation succeeds when no check fails.
C28_FirstFailingCheck ==
  (IsEnterprise /\ Validated) =>
    LET checks == ChecksInOrder
        failing == FailingChecks(checks)
        first == FirstFailing(checks)
    IN IF failing = {}
       THEN pc # "failed" /\ error = NoError
       ELSE /\ pc = "failed"
            /\ error.kind = checks[first].kind
            /\ error.field = checks[first].field
            /\ error.index = checks[first].index
            /\ first <= ChecksBeforeVolumes => ~warned

\* Five checks fail at once (project, the second security group, accessType,
\* monitoringLevel and the second volume), and the error is that of project.
C28_Witness ==
  /\ IsEnterprise
  /\ pc = "failed"
  /\ Cardinality(FailingChecks(ChecksInOrder)) >= 5
  /\ ~TruthyStr(args.project)
  /\ Len(SgList) = 2
  /\ Len(SourceVolumes) = 3
  /\ error.field = "project"
  /\ ~warned

-----------------------------------------------------------------------------
(* C29: the device names of the additional volumes.                        *)

\* The letters b..z, in order.
DeviceSuffixes ==
  << "b", "c", "d", "e", "f", "g", "h", "i", "j", "k", "l", "m", "n", "o", "p",
     "q", "r", "s", "t", "u", "v", "w", "x", "y", "z" >>

\* The additional volumes have been created and attached.
VolumesAttached ==
  pc = "done" /\ component \in {"EnterpriseEc2Instance", "Ec2Instance"}

\* C29 as stated: additional volumes are attached in list order under
\* pairwise distinct device names, the volume at index i as /dev/sd followed
\* by the i-th letter after 'a' (index 0 is /dev/sdb, index 1 is /dev/sdc),
\* and for every accepted list each device suffix is a letter in b..z.
C29_DeviceNames ==
  VolumesAttached =>
    /\ Len(attachments) = Len(SourceVolumes)
    /\ \A i \in 1..Len(attachments) :
         /\ attachments[i].name = SourceVolumes[i].name
         /\ i <= Len(DeviceSuffixes)
         /\ attachments[i].deviceName = "/dev/sd" \o DeviceSuffixes[i]
    /\ \A i, j \in 1..Len(attachments) :
         i # j => attachments[i].deviceName # attachments[j].deviceName

\* What the code does: the volumes are attached in list order under pairwise
\* distinct device names, the first twenty-five as /dev/sdb to /dev/sdz and
\* the twenty-sixth, which validation accepts, as /dev/sd{.
C29_DeviceNamesAsCoded ==
  VolumesAttached =>
    /\ Len(attachments) = Len(SourceVolumes)
    /\ \A i \in 1..Len(attachments) :
         /\ attachments[i].name = SourceVolumes[i].name
         /\ attachments[i].deviceCharCode = 97 + i
         /\ i <= 25 => attachments[i].deviceName = "/dev/sd" \o DeviceSuffixes[i]
         /\ i = 26 => attachments[i].deviceName = "/dev/sd{"
    /\ \A i, j \in 1..Len(attachments) :
         i # j => attachments[i].deviceName # attachments[j].deviceName

-----------------------------------------------------------------------------
(* C30: the maintenance window of each backup strategy.                    *)

\* The days of a week on which a schedule of createBackupResources runs.
RunsPerWeek(schedule) ==
  CASE schedule = "cron(0 5 ? * * *)" -> 7
    [] schedule = "cron(0 5 ? * SUN *)" -> 1

\* C30 as stated: createBackupResources creates no maintenance window when
\* the backup strategy is none and exactly one otherwise; daily gets the
\* every-day schedule, weekly the Sunday-only schedule, and critical a
\* schedule at least as frequent as that of daily.
C30_BackupSchedules ==
  backup # None =>
    /\ backup[1].strategy = "none" <=> Len(backup[1].windows) = 0
    /\ backup[1].strategy # "none" => Len(backup[1].windows) = 1
    /\ backup[1].strategy = "daily" =>
         backup[1].windows[1].schedule = "cron(0 5 ? * * *)"
    /\ backup[1].strategy = "weekly" =>
         backup[1].windows[1].schedule = "cron(0 5 ? * SUN *)"
    /\ backup[1].strategy = "critical" =>
         RunsPerWeek(backup[1].windows[1].schedule)
           >= RunsPerWeek(createBackupResources("daily")[1].schedule)

\* What createBackupResources does: no window for none and one window
\* otherwise, on every day for daily and on Sundays only for every other
\* strategy, critical included.
C30_BackupSchedulesAsCoded ==
  backup # None =>
    /\ backup[1].strategy = "none" <=> Len(backup[1].windows) = 0
    /\ backup[1].strategy # "none" => Len(backup[1].windows) = 1
    /\ backup[1].strategy = "daily" =>
         backup[1].windows[1].schedule = "cron(0 5 ? * * *)"
    /\ backup[1].strategy \in {"weekly", "critical"} =>
         /\ backup[1].windows[1].schedule = "cron(0 5 ? * SUN *)"
         /\ RunsPerWeek(backup[1].windows[1].schedule) = 1

====
